---- MODULE Spec2Model ----
(***************************************************************************)
(* The planner -> executor -> reviewer -> advance workflow of              *)
(* ai_researcher/agent_v3_claude (graph.py, nodes.py, routing.py,          *)
(* state.py, tools.py).                                                    *)
(*                                                                         *)
(* One action per graph node.  A node and the conditional edge that        *)
(* leaves it run in the same step of the graph, so each action is the node *)
(* function followed by its routing function.  The reasoning engine is an  *)
(* oracle: every call returns one response content, drawn from the shapes  *)
(* the parsers distinguish.                                                *)
(***************************************************************************)
EXTENDS Integers, Sequences, FiniteSets, TLC

VARIABLES
    pc,               \* node the graph runs next ("planner" is the entry point), or END
    prev,             \* node that ran last, "start" before the first one
    plan,             \* state["plan"]
    step_index,       \* state["step_index"]
    executor_output,  \* state["executor_output"]
    last_result,      \* state["last_result"]
    verdict,          \* state["verdict"]
    iters,            \* state["iters"]
    max_iters,        \* state["max_iters"]
    last_message,     \* state["messages"][-1]: content of the last appended engine response
    fix_hint,         \* the fix_hint the planner put into its last prompt
    scenario,         \* TRUE while the engine has answered as in the verdict-determinism scenario
    reviews,          \* verdicts the reviewer has given while scenario holds
    visited,          \* nodes run so far while scenario holds
    pruning_cfg,      \* state["pruning_cfg"]
    tool_output_store,\* state["tool_output_store"]._store
    put_log,          \* the (tool_call_id, content) arguments of every ToolOutputStore.put call so far
    messages,         \* state["messages"], the session transcript
    local_messages,   \* run_executor_turn's local_messages; the list handed to prune_messages_for_llm
    safe_messages,    \* the list prune_messages_for_llm returned last
    t_pc,             \* position inside run_executor_turn: "idle", "llm", "tools" or "returned"
    pending,          \* tool calls of the current response that are not executed yet
    rounds,           \* tool-calling rounds of the current executor turn
    executed,         \* (id, raw output) of every tool call executed so far, in order
    passes,           \* calls of prune_messages_for_llm so far
    tool_pc,          \* "ready" for a tool call, or "returned" after one
    tool_call,        \* the tool call under way: the tool, its arguments and the world it runs in
    tool_result,      \* what the call gave its caller: the text returned or the exception raised
    children,         \* the child processes the call started, in order
    fs_ops,           \* the file-system reads and writes the tool itself made, in order
    denied,           \* the policy violation the call ran into: "command", "path" or "none"
    parsing,          \* a response content, and what the parser it was given to made of it
    MEMORY_STORE,     \* memory_tools._MEMORY_STORE, the dict of the process
    memory_files,     \* the .agent_memory.json of every working root, None where there is none
    state_repo_root,  \* state["repo_root"]
    memory_call       \* the memory operation made last, and what it returned

controller_vars == <<pc, prev, plan, step_index, executor_output, last_result, verdict,
                     iters, max_iters, last_message, fix_hint, scenario, reviews, visited>>

context_vars == <<pruning_cfg, tool_output_store, put_log, messages, local_messages,
                  safe_messages, t_pc, pending, rounds, executed, passes>>

sandbox_vars == <<tool_pc, tool_call, tool_result, children, fs_ops, denied>>

parse_vars == <<parsing>>

memory_vars == <<MEMORY_STORE, memory_files, state_repo_root, memory_call>>

vars == <<pc, prev, plan, step_index, executor_output, last_result, verdict,
          iters, max_iters, last_message, fix_hint, scenario, reviews, visited,
          pruning_cfg, tool_output_store, put_log, messages, local_messages,
          safe_messages, t_pc, pending, rounds, executed, passes,
          tool_pc, tool_call, tool_result, children, fs_ops, denied,
          parsing, MEMORY_STORE, memory_files, state_repo_root, memory_call>>

----------------------------------------------------------------------------
(* Bounds *)

MaxPlanLen == 2
MaxItersBound == 4

----------------------------------------------------------------------------
(* Values *)

END == "__end__"
None == "None"

VALID_VERDICTS == {"continue", "retry", "replan", "finish"}

\* Output texts an executor response may carry; "" is the falsy string.
OutputTexts == {"", "out"}
Reasons == {"why"}
FixSuggestions == {"", "fix"}

\* state["executor_output"] = None
NoExecutorOutput == [none |-> TRUE, success |-> TRUE, output |-> ""]

ExecutorOutput(success, output) == [none |-> FALSE, success |-> success, output |-> output]

\* state["last_result"]: None, the executor's output text, or the reviewer's line
\* f"{verdict.upper()}: {reason} | {fix_suggestion}"
NoResult == [kind |-> "None", verdict |-> None, reason |-> "", fix |-> "", text |-> ""]

OutputResult(text) == [kind |-> "output", verdict |-> None, reason |-> "", fix |-> "", text |-> text]

ReviewResult(v, reason, fix) == [kind |-> "review", verdict |-> v, reason |-> reason, fix |-> fix, text |-> ""]

\* f"RETRY: Executor failed - {executor_output['output']}"
AutoRetryResult(text) == [kind |-> "auto_retry", verdict |-> "retry", reason |-> "", fix |-> "", text |-> text]

\* Python truthiness of state["last_result"]: None and "" are falsy.
Truthy(r) == r.kind # "None" /\ ~(r.kind = "output" /\ r.text = "")

\* An engine response content.  form names the shape, the other fields its payload.
Content(form, n, v, success, output, reason, fix) ==
    [form |-> form, n |-> n, verdict |-> v, success |-> success,
     output |-> output, reason |-> reason, fix |-> fix]

NoMessage == Content("none", 0, None, FALSE, "", "", "")

----------------------------------------------------------------------------
(* Planner *)

PlanContent(form, n) == Content(form, n, None, FALSE, "", "", "")

\* Shapes of a planner response:
\*   json            {"plan": [n strings]}
\*   fenced          the same inside a ```json fence
\*   prose_json      the same with free text around it
\*   prose           text without any JSON
\*   blank           "" or whitespace
\*   empty_list      the content is the empty list []
\*   content_list    the content is a non-empty list of blocks
\*   no_plan_key     a JSON object without "plan"
\*   plan_not_list   {"plan": "text"}
\*   plan_non_str    {"plan": [1, 2]}
\*   json_non_object a JSON array or scalar
PlannerContents ==
    { PlanContent("json", n) : n \in 0..MaxPlanLen }
    \cup { PlanContent("fenced", n) : n \in 1..MaxPlanLen }
    \cup { PlanContent("prose_json", 1) }
    \cup { PlanContent(f, 0) : f \in {"prose", "blank", "empty_list", "content_list",
                                      "no_plan_key", "plan_not_list", "plan_non_str",
                                      "json_non_object"} }

Steps(n) == [i \in 1..n |-> IF i = 1 THEN "step 1" ELSE IF i = 2 THEN "step 2" ELSE "step n"]

ParseError == [ok |-> FALSE, plan |-> <<>>]

parse_plan_response(c) ==
    IF c.form = "empty_list" THEN ParseError                     \* raise ValueError
    ELSE IF c.form = "blank" THEN ParseError                     \* raise ValueError
    ELSE IF c.form \in {"content_list", "prose", "prose_json"}
         THEN ParseError                                         \* json.loads raises twice
    ELSE IF c.form = "json_non_object" THEN ParseError           \* data["plan"]: TypeError
    ELSE IF c.form = "no_plan_key" THEN ParseError               \* data["plan"]: KeyError
    ELSE IF c.form \in {"plan_not_list", "plan_non_str"} THEN ParseError
    ELSE [ok |-> TRUE, plan |-> Steps(c.n)]                      \* json, fenced

\* f"Parse failure in planner ({e}). Executing directly: {ai_message.content}"
FallbackStep == "Parse failure in planner. Executing directly"

\* Mutant: a parse failure leaves no plan instead of the single fallback step.
PlannerPlan_EmptyFallback(c) ==
    IF parse_plan_response(c).ok THEN parse_plan_response(c).plan ELSE <<>>

PlannerPlan(c) ==
    IF parse_plan_response(c).ok THEN parse_plan_response(c).plan ELSE <<FallbackStep>>

NoHint == [kind |-> "none", body |-> NoResult]

FixHint(v, r, eo) ==
    IF v # None /\ Truthy(r)
    THEN [kind |-> "feedback", body |-> r]                       \* Previous feedback: ...
    ELSE IF ~eo.none /\ ~eo.success
    THEN [kind |-> "failed", body |-> OutputResult(eo.output)]   \* Previous execution failed: ...
    ELSE NoHint

\* Mutant: the planner always hands over to the executor.
route_after_planner_AlwaysExecutor(p) == "executor"

route_after_planner(p) == IF p # <<>> THEN "executor" ELSE END

----------------------------------------------------------------------------
(* Executor *)

ExecContent(form, success, output) == Content(form, 0, None, success, output, "", "")

\* Shapes of the executor's final response (the one that requests no tools):
\*   json, prose_json   {"success": bool, "output": text}, bare or inside free text
\*   prose, blank, empty_list
\*   no_success         a JSON object without "success"
\*   success_not_bool   {"success": "yes", ...}
\*   output_not_str     {"success": true, "output": 1}
ExecutorContents ==
    { ExecContent(f, s, o) : f \in {"json", "prose_json"}, s \in BOOLEAN, o \in OutputTexts }
    \cup { ExecContent(f, FALSE, "") : f \in {"prose", "blank", "empty_list", "no_success",
                                             "success_not_bool", "output_not_str"} }

ExecParseError == [ok |-> FALSE, success |-> FALSE, output |-> ""]

parse_executor_response(c) ==
    IF c.form \in {"empty_list", "blank"} THEN ExecParseError    \* raise ValueError
    ELSE IF c.form = "prose" THEN ExecParseError                 \* no candidate fragment
    ELSE IF c.form \in {"no_success", "success_not_bool", "output_not_str"} THEN ExecParseError
    ELSE [ok |-> TRUE, success |-> c.success, output |-> c.output]

\* f"Executor response parse error: {e}. Raw response: ..."
ExecParseDiagnostic == "Executor response parse error"

\* Mutant: a response that cannot be parsed counts as a successful step.
ExecutorResult_FailOpen(c) ==
    IF parse_executor_response(c).ok
    THEN ExecutorOutput(parse_executor_response(c).success, parse_executor_response(c).output)
    ELSE ExecutorOutput(TRUE, ExecParseDiagnostic)

ExecutorResult(c) ==
    IF parse_executor_response(c).ok
    THEN ExecutorOutput(parse_executor_response(c).success, parse_executor_response(c).output)
    ELSE ExecutorOutput(FALSE, ExecParseDiagnostic)

\* Mutant: a failed step is reviewed like a successful one.
route_after_executor_AlwaysReview(eo) == "reviewer"

\* Mutant: the two branches are swapped.
route_after_executor_Swapped(eo) == IF ~eo.none /\ ~eo.success THEN "reviewer" ELSE "planner"

route_after_executor(eo) == IF ~eo.none /\ ~eo.success THEN "planner" ELSE "reviewer"

----------------------------------------------------------------------------
(* Reviewer *)

ReviewContent(form, v, reason, fix) == Content(form, 0, v, FALSE, "", reason, fix)

\* Shapes of a reviewer response:
\*   json, prose_json   a JSON object with "verdict", bare or inside free text
\*   prose, blank, empty_list
\*   no_verdict         a JSON object without "verdict"
\*   json_non_object    a JSON array or scalar
\* The verdict value may lie outside VALID_VERDICTS ("maybe").
ReviewerContents ==
    { ReviewContent("json", v, r, f) : v \in VALID_VERDICTS \cup {"maybe"}, r \in Reasons, f \in FixSuggestions }
    \cup { ReviewContent("prose_json", v, "why", "fix") : v \in VALID_VERDICTS }
    \cup { ReviewContent(f, None, "", "") : f \in {"prose", "blank", "empty_list", "no_verdict",
                                                  "json_non_object"} }

ReviewParseError == [ok |-> FALSE, verdict |-> None, reason |-> "", fix |-> ""]

parse_reviewer_response(c) ==
    IF c.form \in {"empty_list", "blank"} THEN ReviewParseError  \* raise ValueError
    ELSE IF c.form = "prose" THEN ReviewParseError               \* no candidate fragment
    ELSE IF c.form = "json_non_object" THEN ReviewParseError     \* data.get: AttributeError
    ELSE IF c.form = "no_verdict" THEN ReviewParseError          \* not verdict
    ELSE IF c.verdict \notin VALID_VERDICTS THEN ReviewParseError
    ELSE [ok |-> TRUE, verdict |-> c.verdict, reason |-> c.reason, fix |-> c.fix]

ParseFailedReason == "Reviewer JSON parse failed"
ParseFailedFix == "Check the last output and try again."

\* Mutant: the verdict of a response that failed to parse is kept as given.
Review_VerdictAsGiven(c) ==
    IF parse_reviewer_response(c).ok
    THEN parse_reviewer_response(c)
    ELSE [ok |-> FALSE, verdict |-> c.verdict, reason |-> ParseFailedReason, fix |-> ParseFailedFix]

Review(c) ==
    IF parse_reviewer_response(c).ok
    THEN parse_reviewer_response(c)
    ELSE [ok |-> FALSE, verdict |-> "retry", reason |-> ParseFailedReason, fix |-> ParseFailedFix]

----------------------------------------------------------------------------
(* Advance *)

\* Mutant: "continue" on the last step is not turned into "finish".
advance_node_NoImplicitFinish(p, si, v, it) ==
    LET it1 == it + 1 IN
    IF v = "finish" THEN [plan |-> p, step_index |-> si, verdict |-> v, iters |-> it1]
    ELSE IF v \in {"retry", "replan"} THEN [plan |-> <<>>, step_index |-> 0, verdict |-> v, iters |-> it1]
    ELSE IF p # <<>> /\ si < Len(p) - 1
         THEN [plan |-> p, step_index |-> si + 1, verdict |-> v, iters |-> it1]
    ELSE [plan |-> p, step_index |-> si, verdict |-> v, iters |-> it1]

\* Mutant: "replan" keeps the plan.
advance_node_ReplanKeepsPlan(p, si, v, it) ==
    LET it1 == it + 1 IN
    IF v = "finish" THEN [plan |-> p, step_index |-> si, verdict |-> v, iters |-> it1]
    ELSE IF v = "retry" THEN [plan |-> <<>>, step_index |-> 0, verdict |-> v, iters |-> it1]
    ELSE IF v = "replan" THEN [plan |-> p, step_index |-> si, verdict |-> v, iters |-> it1]
    ELSE IF p # <<>> /\ si < Len(p) - 1
         THEN [plan |-> p, step_index |-> si + 1, verdict |-> v, iters |-> it1]
    ELSE IF p # <<>> /\ si = Len(p) - 1
         THEN [plan |-> p, step_index |-> si, verdict |-> "finish", iters |-> it1]
    ELSE [plan |-> p, step_index |-> si, verdict |-> v, iters |-> it1]

\* Mutant: the step index is compared with len(plan) instead of len(plan) - 1.
advance_node_OffByOne(p, si, v, it) ==
    LET it1 == it + 1 IN
    IF v = "finish" THEN [plan |-> p, step_index |-> si, verdict |-> v, iters |-> it1]
    ELSE IF v \in {"retry", "replan"} THEN [plan |-> <<>>, step_index |-> 0, verdict |-> v, iters |-> it1]
    ELSE IF p # <<>> /\ si < Len(p)
         THEN [plan |-> p, step_index |-> si + 1, verdict |-> v, iters |-> it1]
    ELSE IF p # <<>> /\ si = Len(p)
         THEN [plan |-> p, step_index |-> si, verdict |-> "finish", iters |-> it1]
    ELSE [plan |-> p, step_index |-> si, verdict |-> v, iters |-> it1]

advance_node(p, si, v, it) ==
    LET it1 == it + 1 IN
    IF v = "finish" THEN [plan |-> p, step_index |-> si, verdict |-> v, iters |-> it1]
    ELSE IF v = "retry" THEN [plan |-> <<>>, step_index |-> 0, verdict |-> v, iters |-> it1]
    ELSE IF v = "replan" THEN [plan |-> <<>>, step_index |-> 0, verdict |-> v, iters |-> it1]
    ELSE IF p # <<>> /\ si < Len(p) - 1
         THEN [plan |-> p, step_index |-> si + 1, verdict |-> v, iters |-> it1]
    ELSE IF p # <<>> /\ si = Len(p) - 1
         THEN [plan |-> p, step_index |-> si, verdict |-> "finish", iters |-> it1]
    ELSE [plan |-> p, step_index |-> si, verdict |-> v, iters |-> it1]

\* Mutant: the iteration ceiling is not checked.
route_after_advance_NoCap(p, si, v, it, mx) ==
    IF v = "finish" THEN END
    ELSE IF v = "retry" THEN "planner"
    ELSE IF p # <<>> /\ si < Len(p) THEN "executor"
    ELSE "planner"

\* Mutant: the session stops one iteration before the ceiling.
route_after_advance_EarlyCap(p, si, v, it, mx) ==
    IF v = "finish" THEN END
    ELSE IF it + 1 >= mx THEN END
    ELSE IF v = "retry" THEN "planner"
    ELSE IF p # <<>> /\ si < Len(p) THEN "executor"
    ELSE "planner"

\* Mutant: every verdict but "retry" goes on to the executor, plan or not.
route_after_advance_NoPlanCheck(p, si, v, it, mx) ==
    IF v = "finish" THEN END
    ELSE IF it >= mx THEN END
    ELSE IF v = "retry" THEN "planner"
    ELSE "executor"

route_after_advance(p, si, v, it, mx) ==
    IF v = "finish" THEN END
    ELSE IF it >= mx THEN END
    ELSE IF v = "retry" THEN "planner"
    ELSE IF p # <<>> /\ si < Len(p) THEN "executor"
    ELSE "planner"

----------------------------------------------------------------------------
(* Texts.  A text is the sequence of its characters, so len(), slicing and  *)
(* count("\n") are computed on it as Python computes them.                  *)

Min2(a, b) == IF a <= b THEN a ELSE b
Max2(a, b) == IF a >= b THEN a ELSE b

\* "x" * n
X(n) == [i \in 1..n |-> "x"]

\* "x\n" * n
XLines(n) == [i \in 1..(2 * n) |-> IF i % 2 = 1 THEN "x" ELSE "\n"]

DigitChar(d) == <<"0", "1", "2", "3", "4", "5", "6", "7", "8", "9">>[d + 1]

RECURSIVE Str(_)
\* str(n) of an int
Str(n) ==
    IF n < 0 THEN <<"-">> \o Str(0 - n)
    ELSE IF n < 10 THEN <<DigitChar(n)>>
    ELSE Str(n \div 10) \o <<DigitChar(n % 10)>>

\* text[:h], h >= 0
HeadChars(text, h) == SubSeq(text, 1, Min2(h, Len(text)))

\* text[-t:] if t > 0 else ""
TailChars(text, t) == IF t > 0 THEN SubSeq(text, Max2(1, Len(text) - t + 1), Len(text)) ELSE <<>>

\* text.count("\n") + 1 if text else 0
LineCount(text) ==
    IF text # <<>> THEN Cardinality({i \in 1..Len(text) : text[i] = "\n"}) + 1 ELSE 0

MarkerOmitted == <<"\n", ".", ".", ".", " ", "<", "o", "m", "i", "t", "t", "e", "d", " ">>
MarkerChars == <<" ", "c", "h", "a", "r", "s", ",", " ">>
MarkerLines == <<" ", "l", "i", "n", "e", "s", " ", "t", "o", "t", "a", "l", ";", " ", "s", "t", "o", "r", "e", "d", " ", "a", "s", " ", "t", "o", "o", "l", "_", "c", "a", "l", "l", "_", "i", "d", "=">>
MarkerEnd == <<">", " ", ".", ".", ".", "\n">>

\* f"\n... <omitted {omitted} chars, {lines} lines total; stored as tool_call_id={tool_call_id}> ...\n"
OmissionMarker(omitted, lines, tool_call_id) ==
    MarkerOmitted \o Str(omitted) \o MarkerChars \o Str(lines) \o MarkerLines
        \o tool_call_id \o MarkerEnd

\* summarize_tool_output
summarize_tool_output(text, cfg, tool_call_id) ==
    IF Len(text) <= cfg.tool_max_chars THEN text
    ELSE LET head == HeadChars(text, cfg.tool_head_chars)
             tail == TailChars(text, cfg.tool_tail_chars)
             lines == LineCount(text)
             omitted == Len(text) - Len(head) - Len(tail)
         IN  head \o OmissionMarker(omitted, lines, tool_call_id) \o tail

----------------------------------------------------------------------------
(* ToolOutputStore.  _store is a function from the stored ids to the texts. *)

EmptyStore == [id \in {} |-> <<>>]

\* The value of get() for an id that is not stored (None); no text equals it.
NotStored == <<"None">>

StoreGet(store, tool_call_id) ==
    IF tool_call_id \in DOMAIN store THEN store[tool_call_id] ELSE NotStored

\* Mutant: the last write wins.
StorePut_LastWriteWins(store, tool_call_id, content) ==
    IF tool_call_id # <<>>
    THEN [id \in DOMAIN store \cup {tool_call_id} |->
             IF id = tool_call_id THEN content ELSE store[id]]
    ELSE store

\* put: if tool_call_id: self._store.setdefault(tool_call_id, content)
StorePut(store, tool_call_id, content) ==
    IF tool_call_id # <<>> /\ tool_call_id \notin DOMAIN store
    THEN [id \in DOMAIN store \cup {tool_call_id} |->
             IF id = tool_call_id THEN content ELSE store[id]]
    ELSE store

----------------------------------------------------------------------------
(* Messages and prune_messages_for_llm *)

\* A message: its class, its content text, the tool_call_id of a ToolMessage,
\* the ids of the tool calls an AIMessage requests, and the parsed shape of
\* an engine response.
Msg(type, content, tool_call_id, calls, body) ==
    [type |-> type, content |-> content, tool_call_id |-> tool_call_id,
     calls |-> calls, body |-> body]

ToolMessage(content, tool_call_id) == Msg("tool", content, tool_call_id, <<>>, NoMessage)

AIMessage(calls, body) == Msg("ai", <<"a">>, <<>>, calls, body)

SystemMessage == Msg("system", <<"s">>, <<>>, <<>>, NoMessage)

HumanMessage == Msg("human", <<"h">>, <<>>, <<>>, NoMessage)

PruningConfig(keep, max, head, tail) ==
    [keep_last_messages |-> keep, tool_max_chars |-> max,
     tool_head_chars |-> head, tool_tail_chars |-> tail]

\* Mutant: the kept window is one message short.
CutoffIndex_OffByOne(msgs, cfg) ==
    IF cfg.keep_last_messages >= 0 THEN Max2(0, Len(msgs) - cfg.keep_last_messages + 1) ELSE 0

\* max(0, len(messages) - n) if n >= 0 else 0
CutoffIndex(msgs, cfg) ==
    IF cfg.keep_last_messages >= 0 THEN Max2(0, Len(msgs) - cfg.keep_last_messages) ELSE 0

\* The list prune_messages_for_llm returns: the message at 0-based index
\* i - 1 >= cutoff_index and every message that is no ToolMessage is passed
\* on as it is, an older ToolMessage is replaced by a new one with the stub.
PrunedMessages(msgs, cfg) ==
    [i \in 1..Len(msgs) |->
        IF i - 1 >= CutoffIndex(msgs, cfg) THEN msgs[i]
        ELSE IF msgs[i].type = "tool"
             THEN ToolMessage(summarize_tool_output(msgs[i].content, cfg, msgs[i].tool_call_id),
                              msgs[i].tool_call_id)
        ELSE msgs[i]]

\* Whether the loop calls store.put for the message at index i:
\* if tool_call_id and store.get(tool_call_id) is None
PrunePuts(store, m) == m.tool_call_id # <<>> /\ StoreGet(store, m.tool_call_id) = NotStored

RECURSIVE PruneStore(_, _, _, _)
\* The store and the put calls after the loop has handled the messages from
\* the i-th on: "for i, msg in enumerate(messages)" with "if i >= cutoff_index".
PruneStore(msgs, i, cutoff, acc) ==
    IF i > Len(msgs) THEN acc
    ELSE IF i - 1 >= cutoff THEN PruneStore(msgs, i + 1, cutoff, acc)
    ELSE IF msgs[i].type = "tool" /\ PrunePuts(acc.store, msgs[i])
         THEN PruneStore(msgs, i + 1, cutoff,
                  [store |-> StorePut(acc.store, msgs[i].tool_call_id, msgs[i].content),
                   puts |-> Append(acc.puts, <<msgs[i].tool_call_id, msgs[i].content>>)])
    ELSE PruneStore(msgs, i + 1, cutoff, acc)

\* prune_messages_for_llm(messages, store=store, cfg=cfg): the returned list,
\* the store afterwards and the put calls made, in order.
prune_messages_for_llm(msgs, store, cfg) ==
    LET after == PruneStore(msgs, 1, CutoffIndex(msgs, cfg), [store |-> store, puts |-> <<>>])
    IN  [messages |-> PrunedMessages(msgs, cfg), store |-> after.store, puts |-> after.puts]

----------------------------------------------------------------------------
(* The verdict-determinism scenario: every planner response is a 2-step     *)
(* plan, every step succeeds, and the reviewer gives the verdicts of        *)
(* Script in order.                                                         *)

Script == <<"retry", "replan", "continue", "continue", "finish">>

ScenarioPlan == <<"step 1", "step 2">>

Visit(state, v, next) == [state |-> state, verdict |-> v, next |-> next]

\* The log after one more node, kept only while the session follows the scenario.
Log(on, entry) == IF on THEN Append(visited, entry) ELSE <<>>

----------------------------------------------------------------------------
(* The graph *)

\* PruningConfig(): the defaults of config.py
DefaultPruningConfig == PruningConfig(20, 6000, 1200, 800)

NoCall == [tool |-> "none"]

NoToolResult == [exc |-> "none", text |-> <<>>]

\* The tools before any call.  The specifications of the graph, the pruner
\* and the executor turn leave them as they are.
SandboxIdle ==
    /\ tool_pc = "ready"
    /\ tool_call = NoCall
    /\ tool_result = NoToolResult
    /\ children = <<>>
    /\ fs_ops = <<>>
    /\ denied = "none"

\* The store, the message lists and the executor turn before anything ran.
\* The graph specification follows the blackboard only and leaves these as
\* they are; TurnSpec follows them through one executor turn.
\* No response is being parsed.
ParseIdle == parsing = [target |-> "none"]

\* No memory operation is made: the process holds no entry and no working root has a file.
MemoryIdle ==
    /\ MEMORY_STORE = <<>>
    /\ memory_files = <<>>
    /\ state_repo_root = <<>>
    /\ memory_call = [op |-> "none"]

ContextIdle ==
    /\ pruning_cfg = DefaultPruningConfig
    /\ tool_output_store = EmptyStore
    /\ put_log = <<>>
    /\ messages = <<>>
    /\ local_messages = <<>>
    /\ safe_messages = <<>>
    /\ t_pc = "idle"
    /\ pending = <<>>
    /\ rounds = 0
    /\ executed = <<>>
    /\ passes = 0

Init ==
    /\ SandboxIdle
    /\ ParseIdle
    /\ MemoryIdle
    /\ pc = "planner"
    /\ prev = "start"
    /\ plan = <<>>
    /\ step_index = 0
    /\ executor_output = NoExecutorOutput
    /\ last_result = NoResult
    /\ verdict = None
    /\ iters = 0
    /\ max_iters \in 0..MaxItersBound
    /\ last_message = NoMessage
    /\ fix_hint = NoHint
    /\ scenario = TRUE
    /\ reviews = 0
    /\ visited = <<>>
    /\ ContextIdle

\* planner_node, then route_after_planner
Planner ==
    /\ pc = "planner"
    /\ \E c \in PlannerContents :
         LET newplan == PlannerPlan(c)
             on == scenario /\ parse_plan_response(c).ok /\ newplan = ScenarioPlan
         IN  /\ fix_hint' = FixHint(verdict, last_result, executor_output)
             /\ plan' = newplan
             /\ step_index' = 0
             /\ last_message' = c
             /\ pc' = route_after_planner(newplan)
             /\ scenario' = on
             /\ reviews' = IF on THEN reviews ELSE 0
             /\ visited' = Log(on, Visit("Planning", None, None))
    /\ prev' = "planner"
    /\ UNCHANGED <<executor_output, last_result, verdict, iters, max_iters>>
    /\ UNCHANGED context_vars
    /\ UNCHANGED sandbox_vars
    /\ UNCHANGED <<parse_vars, memory_vars>>

\* executor_node and run_executor_turn up to the response that requests no
\* tools, then route_after_executor.  plan[step_index] raises IndexError when
\* the index is outside the plan.  route_after_executor assigns plan and
\* step_index on the state it is handed; the graph runtime may keep or drop
\* an assignment made by a routing function, so both outcomes are drawn.
Executor ==
    /\ pc = "executor"
    /\ IF plan = <<>> \/ step_index >= Len(plan)
       THEN /\ pc' = "IndexError"
            /\ scenario' = FALSE
            /\ reviews' = 0
            /\ visited' = <<>>
            /\ UNCHANGED <<plan, step_index, executor_output, last_result, last_message>>
       ELSE \E c \in ExecutorContents, kept \in BOOLEAN :
              LET eo == ExecutorResult(c)
                  nxt == route_after_executor(eo)
                  on == scenario /\ eo.success
              IN  /\ executor_output' = eo
                  /\ last_result' = OutputResult(eo.output)
                  /\ last_message' = c
                  /\ pc' = nxt
                  /\ plan' = IF nxt = "planner" /\ kept THEN <<>> ELSE plan
                  /\ step_index' = IF nxt = "planner" /\ kept THEN 0 ELSE step_index
                  /\ scenario' = on
                  /\ reviews' = IF on THEN reviews ELSE 0
                  /\ visited' = Log(on, Visit("Executing", None, None))
    /\ prev' = "executor"
    /\ UNCHANGED <<verdict, iters, max_iters, fix_hint>>
    /\ UNCHANGED context_vars
    /\ UNCHANGED sandbox_vars
    /\ UNCHANGED <<parse_vars, memory_vars>>

\* reviewer_node, then the edge reviewer -> advance
Reviewer ==
    /\ pc = "reviewer"
    /\ IF ~executor_output.none /\ ~executor_output.success
       THEN /\ verdict' = "retry"
            /\ last_result' = AutoRetryResult(executor_output.output)
            /\ scenario' = FALSE
            /\ reviews' = 0
            /\ visited' = <<>>
            /\ UNCHANGED last_message
       ELSE \E c \in ReviewerContents :
              LET r == Review(c)
                  on == /\ scenario
                        /\ reviews < Len(Script)
                        /\ r.verdict = Script[reviews + 1]
              IN  /\ verdict' = r.verdict
                  /\ last_message' = c
                  /\ last_result' = ReviewResult(r.verdict, r.reason, r.fix)
                  /\ scenario' = on
                  /\ reviews' = IF on THEN reviews + 1 ELSE 0
                  /\ visited' = Log(on, Visit("Reviewing", None, None))
    /\ pc' = "advance"
    /\ prev' = "reviewer"
    /\ UNCHANGED <<plan, step_index, executor_output, iters, max_iters, fix_hint>>
    /\ UNCHANGED context_vars
    /\ UNCHANGED sandbox_vars
    /\ UNCHANGED <<parse_vars, memory_vars>>

\* advance_node, then route_after_advance
Advance ==
    /\ pc = "advance"
    /\ LET a == advance_node(plan, step_index, verdict, iters)
           nxt == route_after_advance(a.plan, a.step_index, a.verdict, a.iters, max_iters)
       IN  /\ plan' = a.plan
           /\ step_index' = a.step_index
           /\ verdict' = a.verdict
           /\ iters' = a.iters
           /\ pc' = nxt
           /\ visited' = Log(scenario, Visit("Advancing", a.verdict, nxt))
    /\ prev' = "advance"
    /\ UNCHANGED <<executor_output, last_result, max_iters, last_message, fix_hint,
                   scenario, reviews>>
    /\ UNCHANGED context_vars
    /\ UNCHANGED sandbox_vars
    /\ UNCHANGED <<parse_vars, memory_vars>>

Next == Planner \/ Executor \/ Reviewer \/ Advance

Spec == Init /\ [][Next]_vars

\* The graph runtime runs the next node as long as there is one.
FairSpec == Spec /\ WF_vars(Next)

TypeOK ==
    /\ pc \in {"planner", "executor", "reviewer", "advance", END, "IndexError"}
    /\ step_index \in 0..MaxPlanLen
    /\ iters \in 0..(MaxItersBound + 1)
    /\ verdict \in VALID_VERDICTS \cup {None}

----------------------------------------------------------------------------
(* Pruning on its own: prune_messages_for_llm applied to a message list,    *)
(* then to its own result, for a fixed PruningConfig and one store.         *)

MaxMsgs == 2
MaxPasses == 3
MaxPutLog == 3

\* The id of the tool call whose result is the i-th message of a list.
CallId(i) == <<"c", DigitChar(i)>>

\* Raw tool results: shorter and longer than the limits of PruneConfigs.
PruneTexts == {X(12), X(20), XLines(6), X(120)}

PruneConfigs ==
    { PruningConfig(k, m, h, t) : k \in {0, 1, 2}, m \in {0, 10, 100},
                                  h \in {0, 5, 50}, t \in {0, 5, 50} }

\* The messages a list may hold at position i: an assistant message, a tool
\* result with its own call id, or a tool result without an id.
MessagesAt(i) ==
    {AIMessage(<<>>, NoMessage)}
    \cup { ToolMessage(text, CallId(i)) : text \in PruneTexts }
    \cup { ToolMessage(X(12), <<>>) }

PruneInputs ==
    UNION { { msgs \in [1..n -> UNION {MessagesAt(i) : i \in 1..n}] :
                \A i \in 1..n : msgs[i] \in MessagesAt(i) } : n \in 0..MaxMsgs }

\* The controller at rest while the pruner or the store is exercised alone.
ControllerIdle ==
    /\ pc = "planner"
    /\ prev = "start"
    /\ plan = <<>>
    /\ step_index = 0
    /\ executor_output = NoExecutorOutput
    /\ last_result = NoResult
    /\ verdict = None
    /\ iters = 0
    /\ max_iters = 0
    /\ last_message = NoMessage
    /\ fix_hint = NoHint
    /\ scenario = FALSE
    /\ reviews = 0
    /\ visited = <<>>

TurnIdle ==
    /\ messages = <<>>
    /\ t_pc = "idle"
    /\ pending = <<>>
    /\ rounds = 0
    /\ executed = <<>>

PruneInit ==
    /\ SandboxIdle
    /\ ParseIdle
    /\ MemoryIdle
    /\ ControllerIdle
    /\ TurnIdle
    /\ pruning_cfg \in PruneConfigs
    /\ local_messages \in PruneInputs
    /\ safe_messages = <<>>
    /\ tool_output_store = EmptyStore
    /\ put_log = <<>>
    /\ passes = 0

\* One call of prune_messages_for_llm: the first on the input list, every
\* later one on the list the call before returned.
PrunePass ==
    /\ passes < MaxPasses
    /\ LET input == IF passes = 0 THEN local_messages ELSE safe_messages
           r == prune_messages_for_llm(input, tool_output_store, pruning_cfg)
       IN  /\ local_messages' = input
           /\ safe_messages' = r.messages
           /\ tool_output_store' = r.store
           /\ put_log' = put_log \o r.puts
    /\ passes' = passes + 1
    /\ UNCHANGED <<pruning_cfg, messages, t_pc, pending, rounds, executed>>
    /\ UNCHANGED controller_vars
    /\ UNCHANGED sandbox_vars
    /\ UNCHANGED <<parse_vars, memory_vars>>

PruneNext == PrunePass

PruneSpec == PruneInit /\ [][PruneNext]_vars

----------------------------------------------------------------------------
(* The store on its own: put calls with any id and content, between calls   *)
(* of prune_messages_for_llm on a list that shares ids with them.           *)

PutIds == {<<>>, CallId(1), CallId(2)}
PutTexts == {X(1), X(2)}

StoreInputs ==
    { <<ToolMessage(X(12), CallId(1)), ToolMessage(X(20), CallId(2))>>,
      <<ToolMessage(X(12), CallId(1)), ToolMessage(X(20), CallId(1))>>,
      <<ToolMessage(X(12), <<>>), AIMessage(<<>>, NoMessage)>> }

StoreInit ==
    /\ SandboxIdle
    /\ ParseIdle
    /\ MemoryIdle
    /\ ControllerIdle
    /\ TurnIdle
    /\ pruning_cfg \in {PruningConfig(0, 10, 5, 5), PruningConfig(1, 10, 5, 5)}
    /\ local_messages \in StoreInputs
    /\ safe_messages = <<>>
    /\ tool_output_store = EmptyStore
    /\ put_log = <<>>
    /\ passes = 0

\* store.put(tool_call_id, content)
DirectPut ==
    /\ Len(put_log) < MaxPutLog
    /\ \E id \in PutIds, content \in PutTexts :
         /\ tool_output_store' = StorePut(tool_output_store, id, content)
         /\ put_log' = Append(put_log, <<id, content>>)
    /\ UNCHANGED <<pruning_cfg, messages, local_messages, safe_messages, t_pc, pending,
                   rounds, executed, passes>>
    /\ UNCHANGED controller_vars
    /\ UNCHANGED sandbox_vars
    /\ UNCHANGED <<parse_vars, memory_vars>>

StoreNext == DirectPut \/ PrunePass

StoreSpec == StoreInit /\ [][StoreNext]_vars

----------------------------------------------------------------------------
(* run_executor_turn: one executor turn, response by response and call by   *)
(* call.  Spec follows the controller alone and leaves the message lists    *)
(* at rest; this specification follows them through one turn.               *)

MaxRounds == 2
MaxCalls == 2

\* Raw tool outputs, shorter and longer than tool_max_chars of TurnConfigs.
ToolOutputs == {X(3), X(12)}

TurnConfigs == {PruningConfig(1, 10, 5, 5), DefaultPruningConfig}

\* The id the engine gives to call j of its r-th tool-requesting response.
RoundCallId(r, j) == <<"c", DigitChar(r), DigitChar(j)>>

\* ai_message.tool_calls of the r-th tool-requesting response, as the ids
\* call.get("id", "") reads: up to MaxCalls calls with ids of their own, or
\* one call without an id.
TurnCalls(r) ==
    { [j \in 1..n |-> RoundCallId(r, j)] : n \in 1..MaxCalls } \cup { << <<>> >> }

\* Final responses of a turn: parsed as a success, parsed as a failure, and
\* not parsed.
TurnAnswers ==
    { ExecContent("json", TRUE, "out"), ExecContent("json", FALSE, "out"),
      ExecContent("prose_json", TRUE, ""), ExecContent("prose", FALSE, ""),
      ExecContent("empty_list", FALSE, ""), ExecContent("success_not_bool", FALSE, "") }

\* [SystemMessage, HumanMessage] + state["messages"]
TurnContext(msgs) == <<SystemMessage, HumanMessage>> \o msgs

\* Mutant: the calls of a response are taken from the end.
NextCall_Last(calls) == calls[Len(calls)]

\* for call in tool_calls: the call the loop handles next
NextCall(calls) == Head(calls)

\* Mutant: the executor leaves storing to the pruner.
ExecutorPut_Skipped(store, tool_call_id, output_text) == store

\* if tool_call_id: state["tool_output_store"].put(tool_call_id, output_text)
ExecutorPut(store, tool_call_id, output_text) ==
    IF tool_call_id # <<>> THEN StorePut(store, tool_call_id, output_text) ELSE store

\* Mutant: the tool result does not carry the id of its call.
ToolResult_NoId(tool_call_id, output_text, cfg) ==
    ToolMessage(summarize_tool_output(output_text, cfg, tool_call_id), <<>>)

\* ToolMessage(content=stub, tool_call_id=tool_call_id)
ToolResult(tool_call_id, output_text, cfg) ==
    ToolMessage(summarize_tool_output(output_text, cfg, tool_call_id), tool_call_id)

\* The session when the executor runs its first step: the planner has
\* answered with a plan of n steps and appended its response.
TurnInit ==
    /\ SandboxIdle
    /\ ParseIdle
    /\ MemoryIdle
    /\ pc = "executor"
    /\ prev = "planner"
    /\ \E n \in {1, 2} :
         /\ plan = Steps(n)
         /\ last_message = PlanContent("json", n)
         /\ messages = <<AIMessage(<<>>, PlanContent("json", n))>>
    /\ step_index = 0
    /\ executor_output = NoExecutorOutput
    /\ last_result = NoResult
    /\ verdict = None
    /\ iters = 0
    /\ max_iters = 1
    /\ fix_hint = NoHint
    /\ scenario = FALSE
    /\ reviews = 0
    /\ visited = <<>>
    /\ pruning_cfg \in TurnConfigs
    /\ tool_output_store = EmptyStore
    /\ put_log = <<>>
    /\ local_messages = <<>>
    /\ safe_messages = <<>>
    /\ t_pc = "idle"
    /\ pending = <<>>
    /\ rounds = 0
    /\ executed = <<>>
    /\ passes = 0

\* current_step = state["plan"][state["step_index"]] and the local context
TurnStart ==
    /\ t_pc = "idle"
    /\ pc = "executor"
    /\ step_index < Len(plan)
    /\ local_messages' = TurnContext(messages)
    /\ t_pc' = "llm"
    /\ UNCHANGED <<pruning_cfg, tool_output_store, put_log, messages, safe_messages,
                   pending, rounds, executed, passes>>
    /\ UNCHANGED controller_vars
    /\ UNCHANGED sandbox_vars
    /\ UNCHANGED <<parse_vars, memory_vars>>

\* One pass of the loop whose response requests tools: prune, invoke, append
\* the assistant turn.
LLMRequestsTools ==
    /\ t_pc = "llm"
    /\ rounds < MaxRounds
    /\ \E calls \in TurnCalls(rounds + 1) :
         LET r == prune_messages_for_llm(local_messages, tool_output_store, pruning_cfg)
         IN  /\ safe_messages' = r.messages
             /\ tool_output_store' = r.store
             /\ put_log' = put_log \o r.puts
             /\ local_messages' = Append(local_messages, AIMessage(calls, NoMessage))
             /\ pending' = calls
    /\ t_pc' = "tools"
    /\ rounds' = rounds + 1
    /\ passes' = passes + 1
    /\ UNCHANGED <<pruning_cfg, messages, executed>>
    /\ UNCHANGED controller_vars
    /\ UNCHANGED sandbox_vars
    /\ UNCHANGED <<parse_vars, memory_vars>>

\* The same pass once the turn has made MaxRounds rounds: from here on only
\* the control flow of the loop is followed, the lists stay as they are.
LLMRequestsToolsAgain ==
    /\ t_pc = "llm"
    /\ rounds >= MaxRounds
    /\ \E calls \in TurnCalls(MaxRounds + 1) :
         LET r == prune_messages_for_llm(local_messages, tool_output_store, pruning_cfg)
         IN  /\ safe_messages' = r.messages
             /\ tool_output_store' = r.store
             /\ put_log' = put_log \o r.puts
             /\ pending' = calls
    /\ t_pc' = "tools"
    /\ rounds' = MaxRounds + 1
    /\ UNCHANGED <<pruning_cfg, messages, local_messages, executed, passes>>
    /\ UNCHANGED controller_vars
    /\ UNCHANGED sandbox_vars
    /\ UNCHANGED <<parse_vars, memory_vars>>

\* One iteration of "for call in tool_calls": execute the call, store the raw
\* output, append the tool result with its stub.
ExecuteCall ==
    /\ t_pc = "tools"
    /\ pending # <<>>
    /\ \E output_text \in ToolOutputs :
         LET tool_call_id == NextCall(pending)
         IN  IF rounds <= MaxRounds
             THEN /\ tool_output_store' = ExecutorPut(tool_output_store, tool_call_id, output_text)
                  /\ put_log' = IF tool_call_id # <<>>
                                THEN Append(put_log, <<tool_call_id, output_text>>)
                                ELSE put_log
                  /\ local_messages' =
                        Append(local_messages, ToolResult(tool_call_id, output_text, pruning_cfg))
                  /\ executed' = Append(executed, [id |-> tool_call_id, output |-> output_text])
             ELSE UNCHANGED <<tool_output_store, put_log, local_messages, executed>>
    /\ pending' = Tail(pending)
    /\ t_pc' = IF Tail(pending) = <<>> THEN "llm" ELSE "tools"
    /\ UNCHANGED <<pruning_cfg, messages, safe_messages, rounds, passes>>
    /\ UNCHANGED controller_vars
    /\ UNCHANGED sandbox_vars
    /\ UNCHANGED <<parse_vars, memory_vars>>

\* The pass whose response requests no tools: prune, invoke, append the
\* response to both lists, parse it, return; then route_after_executor.
LLMAnswers ==
    /\ t_pc = "llm"
    /\ \E c \in TurnAnswers, kept \in BOOLEAN :
         LET r == prune_messages_for_llm(local_messages, tool_output_store, pruning_cfg)
             eo == ExecutorResult(c)
             nxt == route_after_executor(eo)
         IN  /\ safe_messages' = r.messages
             /\ tool_output_store' = r.store
             /\ put_log' = put_log \o r.puts
             /\ local_messages' = Append(local_messages, AIMessage(<<>>, c))
             /\ messages' = Append(messages, AIMessage(<<>>, c))
             /\ executor_output' = eo
             /\ last_result' = OutputResult(eo.output)
             /\ last_message' = c
             /\ pc' = nxt
             /\ plan' = IF nxt = "planner" /\ kept THEN <<>> ELSE plan
             /\ step_index' = IF nxt = "planner" /\ kept THEN 0 ELSE step_index
    /\ t_pc' = "returned"
    /\ prev' = "executor"
    /\ passes' = IF rounds <= MaxRounds THEN passes + 1 ELSE passes
    /\ UNCHANGED <<pruning_cfg, pending, rounds, executed>>
    /\ UNCHANGED <<verdict, iters, max_iters, fix_hint, scenario, reviews, visited>>
    /\ UNCHANGED sandbox_vars
    /\ UNCHANGED <<parse_vars, memory_vars>>

TurnNext == TurnStart \/ LLMRequestsTools \/ ExecuteCall \/ LLMAnswers

TurnSpec == TurnInit /\ [][TurnNext]_vars

\* The loop with an engine that may go on requesting tools: while True has no
\* exit but the response without tool calls, and every pass of the loop is
\* taken once the one before has finished.
TurnLoopNext == TurnNext \/ LLMRequestsToolsAgain

TurnLoopSpec == TurnInit /\ [][TurnLoopNext]_vars /\ WF_vars(TurnLoopNext)

----------------------------------------------------------------------------
(* Command strings *)
(* A command, a shell word and a path are sequences of one-character        *)
(* strings, as the texts of the pruner are, so that startswith, split,      *)
(* basename and the regular expressions are computed character by character. *)

LowerChars ==
    {"a", "b", "c", "d", "e", "f", "g", "h", "i", "j", "k", "l", "m",
     "n", "o", "p", "q", "r", "s", "t", "u", "v", "w", "x", "y", "z"}

UpperChars ==
    {"A", "B", "C", "D", "E", "F", "G", "H", "I", "J", "K", "L", "M",
     "N", "O", "P", "Q", "R", "S", "T", "U", "V", "W", "X", "Y", "Z"}

OctalChars == {"0", "1", "2", "3", "4", "5", "6", "7"}

DigitChars == OctalChars \cup {"8", "9"}

\* \s and str.split(): whitespace
SpaceChars == {" ", "\t", "\n", "\r", "\f"}

\* The backquote character, written by name.
BackquoteChar == "backquote"

\* \w
WordChars == LowerChars \cup UpperChars \cup DigitChars \cup {"_"}

\* s.startswith(prefix)
StartsWith(s, prefix) == Len(prefix) <= Len(s) /\ SubSeq(s, 1, Len(prefix)) = prefix

\* sub in s
Contains(s, sub) ==
    \E i \in 1..(Len(s) - Len(sub) + 1) : SubSeq(s, i, i + Len(sub) - 1) = sub

----------------------------------------------------------------------------
(* Regular expressions: the constructs BLOCKED_PATTERNS uses.  A pattern is  *)
(* a sequence of elements; a match is followed through the set of           *)
(* positions it can have reached.                                           *)

Unbounded == 0 - 1

Boundary == [k |-> "boundary"]

AtEnd == [k |-> "end"]

AnyChar == [k |-> "any"]

In(set) == [k |-> "in", set |-> set]

NotIn(set) == [k |-> "notin", set |-> set]

Repeat(min, max, item) == [k |-> "repeat", min |-> min, max |-> max, item |-> item]

Branch(alts) == [k |-> "branch", alts |-> alts]

\* A literal text.
Word(chars) == [i \in 1..Len(chars) |-> In({chars[i]})]

IsWordAt(s, p) == p >= 1 /\ p <= Len(s) /\ s[p] \in WordChars

RECURSIVE Ends(_, _, _)
RECURSIVE Step(_, _, _)
RECURSIVE Rep(_, _, _, _)
\* The positions after the elements of pat, matched from a position of P.
Ends(pat, s, P) ==
    IF pat = <<>> \/ P = {} THEN P
    ELSE Ends(Tail(pat), s, UNION {Step(pat[1], s, p) : p \in P})

\* The positions after one element matched at position p.
Step(e, s, p) ==
    CASE e.k = "boundary" -> IF IsWordAt(s, p - 1) # IsWordAt(s, p) THEN {p} ELSE {}
      [] e.k = "end" -> IF p = Len(s) + 1 \/ (p = Len(s) /\ s[p] = "\n") THEN {p} ELSE {}
      [] e.k = "any" -> IF p <= Len(s) /\ s[p] # "\n" THEN {p + 1} ELSE {}
      [] e.k = "in" -> IF p <= Len(s) /\ s[p] \in e.set THEN {p + 1} ELSE {}
      [] e.k = "notin" -> IF p <= Len(s) /\ s[p] \notin e.set THEN {p + 1} ELSE {}
      [] e.k = "branch" -> UNION {Ends(e.alts[i], s, {p}) : i \in DOMAIN e.alts}
      [] e.k = "repeat" -> Rep(e, s, {p}, 0)

\* The positions after n or more repetitions, P being those after n.
Rep(e, s, P, n) ==
    LET here == IF n >= e.min THEN P ELSE {}
    IN  IF P = {} \/ n = e.max THEN here
        ELSE here \cup Rep(e, s, UNION {Ends(e.item, s, {p}) : p \in P}, n + 1)

\* pattern.search(s)
Search(pat, s) == \E p \in 1..(Len(s) + 1) : Ends(pat, s, {p}) # {}

----------------------------------------------------------------------------
(* sandbox.py: the allowlist and the blocked patterns *)

ALLOWED_COMMANDS ==
    {<<"a", "c", "k">>, <<"a", "g">>, <<"a", "w", "k">>,
     <<"b", "a", "s", "e", "n", "a", "m", "e">>, <<"b", "l", "a", "c", "k">>,
     <<"c", "a", "r", "g", "o">>, <<"c", "a", "t">>, <<"c", "d">>, <<"c", "h", "m", "o", "d">>,
     <<"c", "h", "o", "w", "n">>, <<"c", "u", "t">>, <<"d", "a", "t", "e">>,
     <<"d", "i", "f", "f">>, <<"d", "i", "r", "n", "a", "m", "e">>, <<"e", "c", "h", "o">>,
     <<"e", "g", "r", "e", "p">>, <<"e", "n", "v">>, <<"e", "x", "p", "r">>,
     <<"f", "a", "l", "s", "e">>, <<"f", "g", "r", "e", "p">>, <<"f", "i", "l", "e">>,
     <<"f", "i", "n", "d">>, <<"f", "l", "a", "k", "e", "8">>, <<"g", "i", "t">>,
     <<"g", "r", "e", "p">>, <<"g", "u", "n", "z", "i", "p">>, <<"g", "z", "i", "p">>,
     <<"h", "e", "a", "d">>, <<"i", "s", "o", "r", "t">>, <<"j", "q">>, <<"l", "e", "s", "s">>,
     <<"l", "s">>, <<"m", "a", "k", "e">>, <<"m", "k", "d", "i", "r">>, <<"m", "o", "r", "e">>,
     <<"m", "y", "p", "y">>, <<"n", "o", "d", "e">>, <<"n", "p", "m">>, <<"n", "p", "x">>,
     <<"p", "i", "p">>, <<"p", "i", "p", "3">>, <<"p", "n", "p", "m">>,
     <<"p", "r", "i", "n", "t", "e", "n", "v">>, <<"p", "r", "i", "n", "t", "f">>,
     <<"p", "w", "d">>, <<"p", "y", "l", "i", "n", "t">>, <<"p", "y", "t", "e", "s", "t">>,
     <<"p", "y", "t", "h", "o", "n">>, <<"p", "y", "t", "h", "o", "n", "3">>,
     <<"r", "e", "a", "l", "p", "a", "t", "h">>, <<"r", "g">>, <<"r", "u", "f", "f">>,
     <<"s", "e", "d">>, <<"s", "o", "r", "t">>, <<"s", "t", "a", "t">>, <<"t", "a", "i", "l">>,
     <<"t", "a", "r">>, <<"t", "e", "s", "t">>, <<"t", "o", "u", "c", "h">>, <<"t", "r">>,
     <<"t", "r", "e", "e">>, <<"t", "r", "u", "e">>, <<"t", "y", "p", "e">>,
     <<"u", "n", "i", "q">>, <<"u", "n", "z", "i", "p">>, <<"u", "v">>, <<"w", "c">>,
     <<"w", "h", "e", "r", "e", "i", "s">>, <<"w", "h", "i", "c", "h">>,
     <<"y", "a", "r", "n">>, <<"y", "q">>}

\* The compiled patterns: the text of each (pattern.pattern) and its elements.
BLOCKED_PATTERNS ==
    <<
      \* 1: \brm\s+-rf\s+/  (re.IGNORECASE)
      [src |-> <<"\\", "b", "r", "m", "\\", "s", "+", "-", "r", "f", "\\", "s", "+", "/">>,
       re |-> <<Boundary>> \o <<In({"r", "R"})>> \o <<In({"m", "M"})>> \o
              <<Repeat(1, Unbounded, <<In(SpaceChars)>>)>> \o Word(<<"-">>) \o
              <<In({"r", "R"})>> \o <<In({"f", "F"})>> \o
              <<Repeat(1, Unbounded, <<In(SpaceChars)>>)>> \o Word(<<"/">>)],
      \* 2: \brm\s+(-[a-z]*f[a-z]*\s+)?/
      [src |-> <<"\\", "b", "r", "m", "\\", "s", "+", "(", "-", "[", "a", "-", "z", "]", "*", "f", "[", "a", "-", "z", "]", "*", "\\", "s", "+", ")", "?", "/">>,
       re |-> <<Boundary>> \o Word(<<"r", "m">>) \o <<Repeat(1, Unbounded, <<In(SpaceChars)>>)>> \o
              <<Repeat(0, 1, Word(<<"-">>) \o
              <<Repeat(0, Unbounded, <<In(LowerChars)>>)>> \o Word(<<"f">>) \o
              <<Repeat(0, Unbounded, <<In(LowerChars)>>)>> \o
              <<Repeat(1, Unbounded, <<In(SpaceChars)>>)>>)>> \o Word(<<"/">>)],
      \* 3: >\s*/dev/sd[a-z]
      [src |-> <<">", "\\", "s", "*", "/", "d", "e", "v", "/", "s", "d", "[", "a", "-", "z", "]">>,
       re |-> Word(<<">">>) \o <<Repeat(0, Unbounded, <<In(SpaceChars)>>)>> \o
              Word(<<"/", "d", "e", "v", "/", "s", "d">>) \o <<In(LowerChars)>>],
      \* 4: \bdd\b.*of=/dev/
      [src |-> <<"\\", "b", "d", "d", "\\", "b", ".", "*", "o", "f", "=", "/", "d", "e", "v", "/">>,
       re |-> <<Boundary>> \o Word(<<"d", "d">>) \o <<Boundary>> \o
              <<Repeat(0, Unbounded, <<AnyChar>>)>> \o
              Word(<<"o", "f", "=", "/", "d", "e", "v", "/">>)],
      \* 5: \bmkfs\b
      [src |-> <<"\\", "b", "m", "k", "f", "s", "\\", "b">>,
       re |-> <<Boundary>> \o Word(<<"m", "k", "f", "s">>) \o <<Boundary>>],
      \* 6: \b(sudo|su|doas)\b
      [src |-> <<"\\", "b", "(", "s", "u", "d", "o", "|", "s", "u", "|", "d", "o", "a", "s", ")", "\\", "b">>,
       re |-> <<Boundary>> \o
              <<Branch(<<Word(<<"s", "u", "d", "o">>), Word(<<"s", "u">>), Word(<<"d", "o", "a", "s">>)>>)>> \o
              <<Boundary>>],
      \* 7: \bchmod\s+[0-7]*777\b
      [src |-> <<"\\", "b", "c", "h", "m", "o", "d", "\\", "s", "+", "[", "0", "-", "7", "]", "*", "7", "7", "7", "\\", "b">>,
       re |-> <<Boundary>> \o Word(<<"c", "h", "m", "o", "d">>) \o
              <<Repeat(1, Unbounded, <<In(SpaceChars)>>)>> \o
              <<Repeat(0, Unbounded, <<In(OctalChars)>>)>> \o Word(<<"7", "7", "7">>) \o
              <<Boundary>>],
      \* 8: \bchown\b.*root
      [src |-> <<"\\", "b", "c", "h", "o", "w", "n", "\\", "b", ".", "*", "r", "o", "o", "t">>,
       re |-> <<Boundary>> \o Word(<<"c", "h", "o", "w", "n">>) \o <<Boundary>> \o
              <<Repeat(0, Unbounded, <<AnyChar>>)>> \o Word(<<"r", "o", "o", "t">>)],
      \* 9: \b(curl|wget|nc|netcat|ncat)\b
      [src |-> <<"\\", "b", "(", "c", "u", "r", "l", "|", "w", "g", "e", "t", "|", "n", "c", "|", "n", "e", "t", "c", "a", "t", "|", "n", "c", "a", "t", ")", "\\", "b">>,
       re |-> <<Boundary>> \o
              <<Branch(<<Word(<<"c", "u", "r", "l">>), Word(<<"w", "g", "e", "t">>), Word(<<"n", "c">>), Word(<<"n", "e", "t", "c", "a", "t">>), Word(<<"n", "c", "a", "t">>)>>)>> \o
              <<Boundary>>],
      \* 10: \b(ssh|scp|rsync|ftp|sftp|telnet)\b
      [src |-> <<"\\", "b", "(", "s", "s", "h", "|", "s", "c", "p", "|", "r", "s", "y", "n", "c", "|", "f", "t", "p", "|", "s", "f", "t", "p", "|", "t", "e", "l", "n", "e", "t", ")", "\\", "b">>,
       re |-> <<Boundary>> \o
              <<Branch(<<Word(<<"s", "s", "h">>), Word(<<"s", "c", "p">>), Word(<<"r", "s", "y", "n", "c">>), Word(<<"f", "t", "p">>), Word(<<"s", "f", "t", "p">>), Word(<<"t", "e", "l", "n", "e", "t">>)>>)>> \o
              <<Boundary>>],
      \* 11: \beval\b
      [src |-> <<"\\", "b", "e", "v", "a", "l", "\\", "b">>,
       re |-> <<Boundary>> \o Word(<<"e", "v", "a", "l">>) \o <<Boundary>>],
      \* 12: (backquote).*(backquote)
      [src |-> <<BackquoteChar, ".", "*", BackquoteChar>>,
       re |-> Word(<<BackquoteChar>>) \o <<Repeat(0, Unbounded, <<AnyChar>>)>> \o Word(<<BackquoteChar>>)],
      \* 13: \$\(.*\)
      [src |-> <<"\\", "$", "\\", "(", ".", "*", "\\", ")">>,
       re |-> Word(<<"$", "(">>) \o <<Repeat(0, Unbounded, <<AnyChar>>)>> \o Word(<<")">>)],
      \* 14: \|\s*sh\b
      [src |-> <<"\\", "|", "\\", "s", "*", "s", "h", "\\", "b">>,
       re |-> Word(<<"|">>) \o <<Repeat(0, Unbounded, <<In(SpaceChars)>>)>> \o Word(<<"s", "h">>) \o
              <<Boundary>>],
      \* 15: \|\s*bash\b
      [src |-> <<"\\", "|", "\\", "s", "*", "b", "a", "s", "h", "\\", "b">>,
       re |-> Word(<<"|">>) \o <<Repeat(0, Unbounded, <<In(SpaceChars)>>)>> \o
              Word(<<"b", "a", "s", "h">>) \o <<Boundary>>],
      \* 16: \|\s*zsh\b
      [src |-> <<"\\", "|", "\\", "s", "*", "z", "s", "h", "\\", "b">>,
       re |-> Word(<<"|">>) \o <<Repeat(0, Unbounded, <<In(SpaceChars)>>)>> \o Word(<<"z", "s", "h">>) \o
              <<Boundary>>],
      \* 17: ;\s*sh\b
      [src |-> <<";", "\\", "s", "*", "s", "h", "\\", "b">>,
       re |-> Word(<<";">>) \o <<Repeat(0, Unbounded, <<In(SpaceChars)>>)>> \o Word(<<"s", "h">>) \o
              <<Boundary>>],
      \* 18: &&\s*sh\b
      [src |-> <<"&", "&", "\\", "s", "*", "s", "h", "\\", "b">>,
       re |-> Word(<<"&", "&">>) \o <<Repeat(0, Unbounded, <<In(SpaceChars)>>)>> \o Word(<<"s", "h">>) \o
              <<Boundary>>],
      \* 19: \bexport\b.*\bPATH\b
      [src |-> <<"\\", "b", "e", "x", "p", "o", "r", "t", "\\", "b", ".", "*", "\\", "b", "P", "A", "T", "H", "\\", "b">>,
       re |-> <<Boundary>> \o Word(<<"e", "x", "p", "o", "r", "t">>) \o <<Boundary>> \o
              <<Repeat(0, Unbounded, <<AnyChar>>)>> \o <<Boundary>> \o
              Word(<<"P", "A", "T", "H">>) \o <<Boundary>>],
      \* 20: \bsource\b
      [src |-> <<"\\", "b", "s", "o", "u", "r", "c", "e", "\\", "b">>,
       re |-> <<Boundary>> \o Word(<<"s", "o", "u", "r", "c", "e">>) \o <<Boundary>>],
      \* 21: \b\.\s+/
      [src |-> <<"\\", "b", "\\", ".", "\\", "s", "+", "/">>,
       re |-> <<Boundary>> \o Word(<<".">>) \o <<Repeat(1, Unbounded, <<In(SpaceChars)>>)>> \o
              Word(<<"/">>)],
      \* 22: /etc/(passwd|shadow|sudoers)
      [src |-> <<"/", "e", "t", "c", "/", "(", "p", "a", "s", "s", "w", "d", "|", "s", "h", "a", "d", "o", "w", "|", "s", "u", "d", "o", "e", "r", "s", ")">>,
       re |-> Word(<<"/", "e", "t", "c", "/">>) \o
              <<Branch(<<Word(<<"p", "a", "s", "s", "w", "d">>), Word(<<"s", "h", "a", "d", "o", "w">>), Word(<<"s", "u", "d", "o", "e", "r", "s">>)>>)>>],
      \* 23: ~/.ssh
      [src |-> <<"~", "/", ".", "s", "s", "h">>,
       re |-> Word(<<"~", "/">>) \o <<AnyChar>> \o Word(<<"s", "s", "h">>)],
      \* 24: \bkill\b.*-9
      [src |-> <<"\\", "b", "k", "i", "l", "l", "\\", "b", ".", "*", "-", "9">>,
       re |-> <<Boundary>> \o Word(<<"k", "i", "l", "l">>) \o <<Boundary>> \o
              <<Repeat(0, Unbounded, <<AnyChar>>)>> \o Word(<<"-", "9">>)],
      \* 25: \bpkill\b
      [src |-> <<"\\", "b", "p", "k", "i", "l", "l", "\\", "b">>,
       re |-> <<Boundary>> \o Word(<<"p", "k", "i", "l", "l">>) \o <<Boundary>>],
      \* 26: \bkillall\b
      [src |-> <<"\\", "b", "k", "i", "l", "l", "a", "l", "l", "\\", "b">>,
       re |-> <<Boundary>> \o Word(<<"k", "i", "l", "l", "a", "l", "l">>) \o <<Boundary>>],
      \* 27: \bnohup\b
      [src |-> <<"\\", "b", "n", "o", "h", "u", "p", "\\", "b">>,
       re |-> <<Boundary>> \o Word(<<"n", "o", "h", "u", "p">>) \o <<Boundary>>],
      \* 28: &\s*$
      [src |-> <<"&", "\\", "s", "*", "$">>,
       re |-> Word(<<"&">>) \o <<Repeat(0, Unbounded, <<In(SpaceChars)>>)>> \o <<AtEnd>>],
      \* 29: \bdisown\b
      [src |-> <<"\\", "b", "d", "i", "s", "o", "w", "n", "\\", "b">>,
       re |-> <<Boundary>> \o Word(<<"d", "i", "s", "o", "w", "n">>) \o <<Boundary>>]
    >>

\* The patterns that match the command, in the order of the list.
MatchingPatterns(cmd) ==
    SelectSeq([i \in 1..Len(BLOCKED_PATTERNS) |-> i],
              LAMBDA i : Search(BLOCKED_PATTERNS[i].re, cmd))

----------------------------------------------------------------------------
(* str and shlex *)

RECURSIVE LStrip(_)
LStrip(s) == IF s # <<>> /\ Head(s) \in SpaceChars THEN LStrip(Tail(s)) ELSE s

RECURSIVE RStrip(_)
RStrip(s) ==
    IF s # <<>> /\ s[Len(s)] \in SpaceChars THEN RStrip(SubSeq(s, 1, Len(s) - 1)) ELSE s

\* s.strip()
Strip(s) == RStrip(LStrip(s))

\* c.lower() of one character
LowerChar(c) ==
    LET upper == <<"A", "B", "C", "D", "E", "F", "G", "H", "I", "J", "K", "L", "M",
                   "N", "O", "P", "Q", "R", "S", "T", "U", "V", "W", "X", "Y", "Z">>
        lower == <<"a", "b", "c", "d", "e", "f", "g", "h", "i", "j", "k", "l", "m",
                   "n", "o", "p", "q", "r", "s", "t", "u", "v", "w", "x", "y", "z">>
    IN  IF c \in UpperChars THEN lower[CHOOSE i \in 1..26 : upper[i] = c] ELSE c

\* s.lower()
Lower(s) == [i \in 1..Len(s) |-> LowerChar(s[i])]

RECURSIVE SplitOn(_, _, _, _)
\* The pieces of s between the characters of seps; cur is the piece being
\* read, acc the pieces read.
SplitOn(s, seps, cur, acc) ==
    IF s = <<>> THEN Append(acc, cur)
    ELSE IF Head(s) \in seps THEN SplitOn(Tail(s), seps, <<>>, Append(acc, cur))
    ELSE SplitOn(Tail(s), seps, Append(cur, Head(s)), acc)

IsNonEmpty(piece) == piece # <<>>

\* s.split(): the words between runs of whitespace
Split(s) == SelectSeq(SplitOn(s, SpaceChars, <<>>, <<>>), IsNonEmpty)

RECURSIVE Join(_, _)
\* sep.join(pieces)
Join(sep, pieces) ==
    IF pieces = <<>> THEN <<>>
    ELSE IF Len(pieces) = 1 THEN pieces[1]
    ELSE pieces[1] \o sep \o Join(sep, Tail(pieces))

ShlexError == [ok |-> FALSE, tokens |-> <<>>]

RECURSIVE ShlexScan(_, _, _, _, _)
\* shlex.split(s) for texts without backslashes: whitespace ends a token, a
\* quote opens a part that runs to the same quote, and a part left open
\* raises ValueError("No closing quotation").
ShlexScan(s, cur, inword, quote, acc) ==
    IF s = <<>>
    THEN IF quote # "" THEN ShlexError
         ELSE [ok |-> TRUE, tokens |-> IF inword THEN Append(acc, cur) ELSE acc]
    ELSE LET c == Head(s)
         IN  IF quote # ""
             THEN IF c = quote THEN ShlexScan(Tail(s), cur, TRUE, "", acc)
                  ELSE ShlexScan(Tail(s), Append(cur, c), TRUE, quote, acc)
             ELSE IF c \in {" ", "\t", "\r", "\n"}
                  THEN IF inword THEN ShlexScan(Tail(s), <<>>, FALSE, "", Append(acc, cur))
                       ELSE ShlexScan(Tail(s), <<>>, FALSE, "", acc)
             ELSE IF c \in {"'", "\""} THEN ShlexScan(Tail(s), cur, TRUE, c, acc)
             ELSE ShlexScan(Tail(s), Append(cur, c), TRUE, "", acc)

ShlexSplit(s) == ShlexScan(s, <<>>, FALSE, "", <<>>)

----------------------------------------------------------------------------
(* Paths.  A resolved path is the sequence of its segments. *)

\* os.path.basename(p): what follows the last "/"
Basename(p) == LET pieces == SplitOn(p, {"/"}, <<>>, <<>>) IN pieces[Len(pieces)]

\* The working root of the session and a sibling directory whose name
\* starts with the name of the root.
RootStr == <<"/", "w", "o", "r", "k", "/", "r", "e", "p", "o">>

\* The symbolic links of the file system: /work/repo/out -> /etc
SymlinkTarget(segs) ==
    IF segs = <<<<"w", "o", "r", "k">>, <<"r", "e", "p", "o">>, <<"o", "u", "t">>>>
    THEN <<<<"e", "t", "c">>>>
    ELSE segs

RECURSIVE Walk(_, _)
\* Path.resolve(): "." and empty segments are dropped, ".." leaves the
\* directory reached so far, a symbolic link is replaced by its target.
Walk(rest, acc) ==
    IF rest = <<>> THEN acc
    ELSE LET seg == Head(rest)
         IN  IF seg = <<>> \/ seg = <<".">> THEN Walk(Tail(rest), acc)
             ELSE IF seg = <<".", ".">>
                  THEN Walk(Tail(rest), IF acc = <<>> THEN acc ELSE SubSeq(acc, 1, Len(acc) - 1))
             ELSE Walk(Tail(rest), SymlinkTarget(Append(acc, seg)))

\* Path(p).resolve() of an absolute path
Resolve(p) == Walk(SplitOn(p, {"/"}, <<>>, <<>>), <<>>)

\* Path(base) / p
PathJoin(base, p) == IF StartsWith(p, <<"/">>) THEN p ELSE base \o <<"/">> \o p

\* str(path)
PathStr(segs) ==
    IF segs = <<>> THEN <<"/">>
    ELSE Join(<<>>, [i \in 1..Len(segs) |-> <<"/">> \o segs[i]])

\* root in p.parents or p == root
IsUnder(p, root) == Len(root) <= Len(p) /\ SubSeq(p, 1, Len(root)) = root

\* Mutant: containment is tested on the path strings.
safe_path_StringPrefix(repo_root, rel_path) ==
    LET root == Resolve(repo_root)
        p == Resolve(PathJoin(PathStr(root), rel_path))
    IN  [ok |-> StartsWith(PathStr(p), PathStr(root)), path |-> p]

\* safe_path(repo_root, rel_path): the resolved path, or ValueError
safe_path(repo_root, rel_path) ==
    LET root == Resolve(repo_root)
        p == Resolve(PathJoin(PathStr(root), rel_path))
    IN  [ok |-> IsUnder(p, root), path |-> p]

----------------------------------------------------------------------------
(* sandbox.py: validate_command *)

\* _extract_base_command(cmd)
extract_base_command(cmd0) ==
    LET stripped == Strip(cmd0)
        parts == Split(stripped)
        rest == {i \in 2..Len(parts) :
                    ~Contains(parts[i], <<"=">>) /\ ~StartsWith(parts[i], <<"-">>)}
        first == CHOOSE i \in rest : \A j \in rest : i <= j
        cmd == IF StartsWith(stripped, <<"e", "n", "v", " ">>) /\ rest # {}
               THEN Join(<<" ">>, SubSeq(parts, first, Len(parts)))
               ELSE stripped
        sh == ShlexSplit(cmd)
        base == Basename(sh.tokens[1])
        words == Split(cmd)
    IN  IF sh.ok /\ sh.tokens # <<>>
        THEN IF StartsWith(base, <<"p", "y", "t", "h", "o", "n", "3", ".">>)
             THEN <<"p", "y", "t", "h", "o", "n", "3">>
             ELSE IF StartsWith(base, <<"p", "y", "t", "h", "o", "n", "2", ".">>)
                  THEN <<"p", "y", "t", "h", "o", "n">>
             ELSE base
        ELSE IF words # <<>> THEN Basename(words[1]) ELSE <<>>

\* The line typed at the j-th prompt; input() raises EOFError when there is
\* no further line.
EndOfInput == <<"EOF", "EOF">>

ReplyAt(replies, j) == IF j <= Len(replies) THEN replies[j] ELSE EndOfInput

\* response = input(...).strip().lower(); response in ("yes", "y")
Accepts(reply) == Lower(Strip(reply)) \in {<<"y", "e", "s">>, <<"y">>}

\* The element of a set of one element.  A value that a definition uses
\* more than once is bound as the element of {value}.
Only(S) == CHOOSE x \in S : TRUE

\* repr(s) of a text without quotes: the text between quotes, each backslash
\* doubled
Repr(s) ==
    <<"'">> \o Join(<<>>, [i \in 1..Len(s) |-> IF s[i] = "\\" THEN <<"\\", "\\">> ELSE <<s[i]>>])
    \o <<"'">>

SafePrefixes == <<<<"/", "d", "e", "v", "/", "n", "u", "l", "l">>, <<"/", "t", "m", "p">>, <<"/", "u", "s", "r", "/", "b", "i", "n">>, <<"/", "u", "s", "r", "/", "l", "o", "c", "a", "l", "/", "b", "i", "n">>>>

\* The tests on one token of tokens[1:]: the message of the
\* CommandNotAllowedError it raises, or <<>> when it raises none.
TokenError(token, repo_root) ==
    LET repo_str == PathStr(Resolve(repo_root))
    IN  IF /\ StartsWith(token, <<"/">>)
           /\ ~StartsWith(token, repo_str)
           /\ ~\E i \in DOMAIN SafePrefixes : StartsWith(token, SafePrefixes[i])
        THEN <<"P", "a", "t", "h", " ", "'">> \o token
             \o <<"'", " ", "i", "s", " ", "o", "u", "t", "s", "i", "d", "e", " ", "t", "h", "e", " ", "r", "e", "p", "o", "s", "i", "t", "o", "r", "y", ".", " ", "C", "o", "m", "m", "a", "n", "d", "s", " ", "m", "u", "s", "t", " ", "o", "p", "e", "r", "a", "t", "e", " ", "w", "i", "t", "h", "i", "n", ":", " ">> \o repo_str
        ELSE IF /\ Contains(token, <<".", ".">>)
                /\ ~StartsWith(PathStr(Resolve(PathJoin(repo_root, token))), repo_str)
        THEN <<"P", "a", "t", "h", " ", "'">> \o token \o <<"'", " ", "e", "s", "c", "a", "p", "e", "s", " ", "t", "h", "e", " ", "r", "e", "p", "o", "s", "i", "t", "o", "r", "y", " ", "v", "i", "a", " ", "'", ".", ".", "'">>
        ELSE <<>>

\* The path checks of validate_command: the message of the first token that
\* raises, or <<>>.  A command shlex cannot split raises ValueError, which is
\* passed over.
ConfinementError(cmd, repo_root) ==
    LET sh == ShlexSplit(cmd)
        raising == {i \in 2..Len(sh.tokens) : TokenError(sh.tokens[i], repo_root) # <<>>}
    IN  IF sh.ok /\ raising # {}
        THEN TokenError(sh.tokens[CHOOSE i \in raising : \A j \in raising : i <= j], repo_root)
        ELSE <<>>

\* The checks of validate_command, in the order it makes them.
ValidationStages == <<"blocklist", "allowlist", "confinement">>

\* validate_command returned: the prompts it showed and the checks it made.
Passed(prompts, checks) ==
    [exc |-> "none", stage |-> "none", prompts |-> prompts, checks |-> checks, text |-> <<>>]

\* validate_command raised at a check, with str(e).
Raised(exc, stage, prompts, text) ==
    [exc |-> exc, stage |-> stage, prompts |-> prompts, checks |-> <<>>, text |-> text]

\* The refusal at a prompt: input() raised EOFError, or the line typed is
\* not a yes.
Refused(reply, stage, prompts, text) ==
    IF reply = EndOfInput THEN Raised("EOFError", stage, prompts, <<"E", "O", "F", " ", "w", "h", "e", "n", " ", "r", "e", "a", "d", "i", "n", "g", " ", "a", " ", "l", "i", "n", "e">>)
    ELSE Raised("CommandNotAllowedError", stage, prompts, text)

\* validate_command(cmd, repo_root) with the lines typed at its prompts.
validate_command(cmd, repo_root, replies) ==
    LET Checks(matching, base_cmd, path_error) ==
            LET refused == {j \in 1..Len(matching) : ~Accepts(ReplyAt(replies, j))}
                first == CHOOSE j \in refused : \A k \in refused : j <= k
                allowed == base_cmd \in ALLOWED_COMMANDS
                asked == Len(matching) + (IF allowed THEN 0 ELSE 1)
            IN  IF refused # {}
                THEN Refused(ReplyAt(replies, first), "blocklist", first,
                             <<"C", "o", "m", "m", "a", "n", "d", " ", "b", "l", "o", "c", "k", "e", "d", " ", "b", "y", " ", "u", "s", "e", "r", ":", " ", "s", "e", "c", "u", "r", "i", "t", "y", " ", "p", "a", "t", "t", "e", "r", "n", " ">>
                             \o Repr(BLOCKED_PATTERNS[matching[first]].src))
                ELSE IF ~allowed /\ ~Accepts(ReplyAt(replies, asked))
                THEN Refused(ReplyAt(replies, asked), "allowlist", asked,
                             <<"C", "o", "m", "m", "a", "n", "d", " ", "'">> \o base_cmd
                             \o <<"'", " ", "b", "l", "o", "c", "k", "e", "d", " ", "b", "y", " ", "u", "s", "e", "r", ".", " ", "N", "o", "t", " ", "i", "n", " ", "a", "l", "l", "o", "w", "l", "i", "s", "t", ".">>)
                ELSE IF path_error # <<>>
                THEN Raised("CommandNotAllowedError", "confinement", asked, path_error)
                ELSE Passed(asked, IF ShlexSplit(cmd).ok THEN ValidationStages
                                   ELSE SubSeq(ValidationStages, 1, 2))
    IN  Only({Checks(matching, base_cmd, path_error) :
                 matching \in {MatchingPatterns(cmd)},
                 base_cmd \in {extract_base_command(cmd)},
                 path_error \in {ConfinementError(cmd, repo_root)}})

----------------------------------------------------------------------------
(* sandbox.py: build_sandbox_env, run_sandboxed *)

MAX_TIMEOUT_S == 300

SANDBOX_ENV_OVERRIDES ==
    [http_proxy |-> <<"h", "t", "t", "p", ":", "/", "/", "0", ".", "0", ".", "0", ".", "0", ":", "0">>, https_proxy |-> <<"h", "t", "t", "p", ":", "/", "/", "0", ".", "0", ".", "0", ".", "0", ":", "0">>,
     HTTP_PROXY |-> <<"h", "t", "t", "p", ":", "/", "/", "0", ".", "0", ".", "0", ".", "0", ":", "0">>, HTTPS_PROXY |-> <<"h", "t", "t", "p", ":", "/", "/", "0", ".", "0", ".", "0", ".", "0", ":", "0">>,
     no_proxy |-> <<>>, NO_PROXY |-> <<>>, PIP_NO_INDEX |-> <<"1">>,
     NPM_CONFIG_OFFLINE |-> <<"t", "r", "u", "e">>]

\* os.path.expanduser("~")
HomeStr == <<"/", "h", "o", "m", "e", "/", "u">>

\* safe_paths; no node versions are installed under ~/.nvm, so the glob
\* adds nothing.
SafePaths ==
    <<<<"/", "u", "s", "r", "/", "l", "o", "c", "a", "l", "/", "b", "i", "n">>, <<"/", "u", "s", "r", "/", "b", "i", "n">>, <<"/", "b", "i", "n">>, <<"/", "u", "s", "r", "/", "l", "o", "c", "a", "l", "/", "s", "b", "i", "n">>, <<"/", "u", "s", "r", "/", "s", "b", "i", "n">>, <<"/", "s", "b", "i", "n">>,
      <<"/", "o", "p", "t", "/", "h", "o", "m", "e", "b", "r", "e", "w", "/", "b", "i", "n">>, HomeStr \o <<"/", ".", "l", "o", "c", "a", "l", "/", "b", "i", "n">>, HomeStr \o <<"/", ".", "c", "a", "r", "g", "o", "/", "b", "i", "n">>,
      HomeStr \o <<"/", ".", "p", "y", "e", "n", "v", "/", "s", "h", "i", "m", "s">>>>

RECURSIVE RStripSlash(_)
\* s.rstrip("/")
RStripSlash(s) ==
    IF s # <<>> /\ s[Len(s)] = "/" THEN RStripSlash(SubSeq(s, 1, Len(s) - 1)) ELSE s

\* The test of the PATH filter on one entry of the parent's PATH.
IsSafePathEntry(path) ==
    /\ path # <<>>
    /\ \E i \in DOMAIN SafePaths :
          LET normalized_path == RStripSlash(path)
              safe_normalized == RStripSlash(SafePaths[i])
          IN  \/ normalized_path = safe_normalized
              \/ StartsWith(normalized_path, safe_normalized \o <<"/">>)

\* build_sandbox_env(repo_root, allow_network) in a world: the parent's
\* os.environ and whether repo_root/.venv/bin exists.
build_sandbox_env(repo_root, allow_network, world) ==
    LET env == IF allow_network THEN world.environ
               ELSE SANDBOX_ENV_OVERRIDES @@ world.environ
        existing == SplitOn(IF "PATH" \in DOMAIN env THEN env["PATH"] ELSE <<>>,
                            {":"}, <<>>, <<>>)
        kept == SelectSeq(existing, IsSafePathEntry)
        venv_bin == PathStr(Resolve(repo_root)) \o <<"/", ".", "v", "e", "n", "v", "/", "b", "i", "n">>
        filtered == IF world.has_venv THEN <<venv_bin>> \o kept ELSE kept
    IN  [PATH |-> IF filtered # <<>> THEN Join(<<":">>, filtered) ELSE <<"/", "u", "s", "r", "/", "b", "i", "n", ":", "/", "b", "i", "n">>,
         UMASK |-> <<"0", "7", "7">>] @@ env

ShellOperators == {<<";">>, <<"&", "&">>, <<"|", "|">>, <<"|">>, <<"&">>}

RECURSIVE CommandWords(_, _, _)
\* The command word of every simple command of a list of shell words: the
\* first word after a control operator that is not an assignment.
CommandWords(tokens, expecting, acc) ==
    IF tokens = <<>> THEN acc
    ELSE IF Head(tokens) \in ShellOperators THEN CommandWords(Tail(tokens), TRUE, acc)
    ELSE IF expecting /\ ~Contains(Head(tokens), <<"=">>)
         THEN CommandWords(Tail(tokens), FALSE, acc \cup {Basename(Head(tokens))})
    ELSE CommandWords(Tail(tokens), expecting, acc)

\* subprocess.run(cmd, shell=True): the programs /bin/sh -c cmd starts.  A
\* line it cannot parse starts none.
ProgramsRun(cmd) ==
    IF ShlexSplit(cmd).ok THEN CommandWords(ShlexSplit(cmd).tokens, TRUE, {}) ELSE {}

\* A child process: its command line and environment, the checks the
\* command line went through before the start, and the programs it runs.
Child(cmd, env, checks) ==
    [cmd |-> cmd, env |-> env, checks |-> checks, programs |-> ProgramsRun(cmd)]

\* The text run_sandboxed returns for a child that ran: world.run is what
\* the child did, exit with a code and an output or run into the timeout.
RunText(cmd, timeout_s, run) ==
    <<"$", " ">> \o cmd \o <<"\n">>
    \o IF run.kind = "timeout" THEN <<"(", "T", "I", "M", "E", "O", "U", "T", " ", "a", "f", "t", "e", "r", " ">> \o Str(timeout_s) \o <<"s", ")">>
       ELSE <<"(", "e", "x", "i", "t", "=">> \o Str(run.code) \o <<")", "\n">> \o run.out

\* What a function gave its caller: the text returned (exc = "none") or the
\* exception raised with str(e), the child processes started and the
\* file-system operations made on the way.  denied tells whether the call
\* ran into a CommandNotAllowedError ("command") or into the ValueError of
\* safe_path ("path"), whatever became of the exception afterwards.
Outcome(exc, text, started, ops) ==
    [exc |-> exc, text |-> text, children |-> started, ops |-> ops,
     denied |-> IF exc = "CommandNotAllowedError" THEN "command" ELSE "none"]

\* safe_path raised ValueError("Path escapes repo_root") and the caller
\* raises or returns this outcome.
PathDenied(exc, text) ==
    [exc |-> exc, text |-> text, children |-> <<>>, ops |-> <<>>, denied |-> "path"]

\* run_sandboxed_with_env(cmd, cwd, timeout_s=, validate=, extra_env=)
run_sandboxed_with_env(cmd, cwd, timeout_s, validate, extra_env, world) ==
    LET capped == Min2(timeout_s, MAX_TIMEOUT_S)
        env == extra_env @@ build_sandbox_env(cwd, FALSE, world)
        Run(v) ==
            IF v.exc # "none" THEN Outcome(v.exc, v.text, <<>>, <<>>)
            ELSE Outcome("none", RunText(cmd, capped, world.run),
                         <<Child(cmd, env, v.checks)>>, <<>>)
    IN  Only({Run(v) : v \in {IF validate THEN validate_command(cmd, cwd, world.replies)
                              ELSE Passed(0, <<>>)}})

\* run_sandboxed(cmd, cwd, timeout_s, validate): the same steps without
\* extra_env
run_sandboxed(cmd, cwd, timeout_s, validate, world) ==
    run_sandboxed_with_env(cmd, cwd, timeout_s, validate, <<>>, world)

----------------------------------------------------------------------------
(* cmd_tools.py *)

\* (BLOCKED: {e}) after the command line
BlockedText(cmd, e) == <<"$", " ">> \o cmd \o <<"\n", "(", "B", "L", "O", "C", "K", "E", "D", ":", " ">> \o e \o <<")">>

\* run_cmd(repo_root, cmd, timeout_s)
run_cmd(repo_root, cmd, timeout_s, world) ==
    LET Caught(r) ==
            IF r.exc = "CommandNotAllowedError"
            THEN [r EXCEPT !.exc = "none", !.text = BlockedText(cmd, r.text)]
            ELSE r
    IN  Only({Caught(r) :
                 r \in {run_sandboxed(cmd, PathStr(Resolve(repo_root)), timeout_s, TRUE, world)}})

\* A read or a write the tool itself makes in the file system.
FsOp(op, path) == [op |-> op, path |-> path]

\* shlex.quote(s)
Quote(s) ==
    LET safe == LowerChars \cup UpperChars \cup DigitChars
                \cup {"_", "@", "%", "+", "=", ":", ",", ".", "/", "-"}
    IN  IF s = <<>> THEN <<"'", "'">>
        ELSE IF \A i \in DOMAIN s : s[i] \in safe THEN s
        ELSE <<"'">>
             \o Join(<<>>, [i \in 1..Len(s) |-> IF s[i] = "'" THEN <<"'", "\"", "'", "\"", "'">> ELSE <<s[i]>>])
             \o <<"'">>

\* The files and directories of the world: the working root with two
\* Python files and a text file, its .venv when the world has one, and a
\* virtualenv outside the root.
Exists(path, world) ==
    LET p == Resolve(path)
        root == Resolve(RootStr)
    IN  \/ p \in {root, root \o <<<<"a", ".", "p", "y">>>>, root \o <<<<"b", " ", "c", ".", "p", "y">>>>, root \o <<<<"n", "o", "t", "e", "s", ".", "t", "x", "t">>>>,
                  Resolve(<<"/", "o", "p", "t", "/", "e", "v", "i", "l", "/", "v", "e", "n", "v">>), Resolve(<<"/", "o", "p", "t", "/", "e", "v", "i", "l", "/", "v", "e", "n", "v", "/", "b", "i", "n">>)}
        \/ world.has_venv /\ p \in {root \o <<<<".", "v", "e", "n", "v">>>>, root \o <<<<".", "v", "e", "n", "v">>, <<"b", "i", "n">>>>}

\* apply_patch(repo_root, unified_diff, check)
apply_patch(repo_root, check, world) ==
    LET root == Resolve(repo_root)
        patch_path == root \o <<<<".", "a", "g", "e", "n", "t", "_", "p", "a", "t", "c", "h", ".", "d", "i", "f", "f">>>>
        cmd == IF check THEN <<"g", "i", "t", " ", "a", "p", "p", "l", "y", " ", "-", "-", "c", "h", "e", "c", "k", " ", ".", "a", "g", "e", "n", "t", "_", "p", "a", "t", "c", "h", ".", "d", "i", "f", "f">>
               ELSE <<"g", "i", "t", " ", "a", "p", "p", "l", "y", " ", ".", "a", "g", "e", "n", "t", "_", "p", "a", "t", "c", "h", ".", "d", "i", "f", "f">>
        Result(r) ==
            [r EXCEPT !.ops =
                <<FsOp("write", patch_path)>>
                \o IF r.exc = "none" /\ Contains(r.text, <<"(", "e", "x", "i", "t", "=", "0", ")">>) /\ ~check
                   THEN <<FsOp("unlink", patch_path)>> ELSE <<>>]
    IN  Only({Result(r) : r \in {run_sandboxed(cmd, PathStr(root), 60, TRUE, world)}})

\* run_pytest(repo_root, args, timeout_s): the command it runs
PytestCmd(args) == Strip(<<"p", "y", "t", "e", "s", "t", " ">> \o args)

\* run_pytest(repo_root, args, timeout_s)
run_pytest(repo_root, args, timeout_s, world) ==
    run_sandboxed(PytestCmd(args), PathStr(Resolve(repo_root)), timeout_s, TRUE, world)

\* run_terminal_command(repo_root, cmd, is_background, timeout_s); pid is
\* the process id the system gives a background process.
run_terminal_command(repo_root, cmd, is_background, timeout_s, pid, world) ==
    LET root == PathStr(Resolve(repo_root))
    IN  IF is_background
        THEN Outcome("none",
                     <<"$", " ">> \o cmd \o <<"\n", "(", "B", "a", "c", "k", "g", "r", "o", "u", "n", "d", " ", "p", "r", "o", "c", "e", "s", "s", " ", "s", "t", "a", "r", "t", "e", "d", ",", " ", "P", "I", "D", "=">> \o Str(pid) \o <<")">>,
                     <<Child(cmd, build_sandbox_env(root, FALSE, world), <<>>)>>, <<>>)
        ELSE run_cmd(repo_root, cmd, timeout_s, world)

\* The lines of the result of a linter that get_errors reports.
RelevantLines(result, file_path, also_dash) ==
    SelectSeq(SplitOn(result, {"\n"}, <<>>, <<>>),
              LAMBDA line : \/ Contains(line, file_path)
                            \/ Contains(Lower(line), IF also_dash THEN <<"e", "r", "r", "o", "r">> ELSE <<"e", "r", "r", "o", "r", ":">>)
                            \/ also_dash /\ StartsWith(Strip(line), <<"-">>))

\* get_errors(repo_root, file_paths) for one file path
get_errors(repo_root, file_path, world) ==
    LET root == PathStr(Resolve(repo_root))
        full == PathJoin(root, file_path)
        header == <<"\n", "=", "=", "=", " ">> \o file_path \o <<" ", "=", "=", "=">>
        Report(ruff, mypy) ==
            LET ruff_lines == RelevantLines(ruff.text, file_path, TRUE)
                mypy_lines == RelevantLines(mypy.text, file_path, FALSE)
                file_errors ==
                    (IF (\/ ~Contains(ruff.text, <<"(", "e", "x", "i", "t", "=", "0", ")">>)
                         \/ Contains(Lower(ruff.text), <<"e", "r", "r", "o", "r">>))
                        /\ ruff_lines # <<>>
                     THEN <<<<"R", "u", "f", "f", " ", "l", "i", "n", "t", "i", "n", "g", ":", "\n">> \o Join(<<"\n">>, ruff_lines)>> ELSE <<>>)
                    \o (IF ~Contains(mypy.text, <<"(", "e", "x", "i", "t", "=", "0", ")">>) /\ mypy_lines # <<>>
                        THEN <<<<"M", "y", "P", "y", " ", "t", "y", "p", "e", " ", "c", "h", "e", "c", "k", "i", "n", "g", ":", "\n">> \o Join(<<"\n">>, mypy_lines)>>
                        ELSE <<>>)
            IN  Outcome("none",
                        IF file_errors = <<>> THEN <<"N", "o", " ", "e", "r", "r", "o", "r", "s", " ", "f", "o", "u", "n", "d", " ", "i", "n", " ", "1", " ", "f", "i", "l", "e", "(", "s", ")">>
                        ELSE Join(<<"\n">>, <<header>> \o file_errors),
                        ruff.children \o mypy.children,
                        <<FsOp("read", Resolve(full))>>)
    IN  IF ~Exists(full, world)
        THEN Outcome("none", header \o <<"\n", "F", "i", "l", "e", " ", "n", "o", "t", " ", "f", "o", "u", "n", "d", ":", " ">> \o file_path, <<>>, <<>>)
        ELSE IF Len(file_path) < 4 \/ SubSeq(file_path, Len(file_path) - 2, Len(file_path)) # <<".", "p", "y">>
        THEN Outcome("none", header \o <<"\n", "N", "o", "t", " ", "a", " ", "P", "y", "t", "h", "o", "n", " ", "f", "i", "l", "e", ":", " ">> \o file_path, <<>>, <<>>)
        ELSE Only({Report(ruff, mypy) :
                      ruff \in {run_sandboxed(<<"r", "u", "f", "f", " ", "c", "h", "e", "c", "k", " ">> \o file_path, root, 30, FALSE, world)},
                      mypy \in {run_sandboxed(<<"m", "y", "p", "y", " ">> \o file_path \o <<" ", "-", "-", "n", "o", "-", "e", "r", "r", "o", "r", "-", "s", "u", "m", "m", "a", "r", "y">>,
                                              root, 30, FALSE, world)}})

\* The matches of the Python scan grep falls back to: the one line of a.py,
\* for a pattern without special characters.
ScanHits(pattern, base) ==
    IF IsUnder(Resolve(RootStr) \o <<<<"a", ".", "p", "y">>>>, base) /\ Contains(<<"s", "u", "d", "o", " ", "=", " ", "m", "a", "k", "e">>, pattern)
    THEN <<"a", ".", "p", "y", ":", "1", ":", "s", "u", "d", "o", " ", "=", " ", "m", "a", "k", "e">>
    ELSE <<"(", "n", "o", " ", "m", "a", "t", "c", "h", "e", "s", ")">>

\* grep(repo_root, pattern, path, flags)
grep(repo_root, pattern, path, flags, world) ==
    LET root == PathStr(Resolve(repo_root))
        base == safe_path(repo_root, path)
        cmd == <<"r", "g", " ", "-", "n", " ">> \o flags \o <<" ", "-", "-", " ", "\"">> \o pattern \o <<"\"", " ", "\"">> \o PathStr(base.path) \o <<"\"">>
        Result(r) ==
            IF r.exc = "none" THEN r
            ELSE [r EXCEPT !.exc = "none", !.text = ScanHits(pattern, base.path),
                           !.ops = <<FsOp("read", base.path)>>]
    IN  IF ~base.ok THEN PathDenied("ValueError", <<"P", "a", "t", "h", " ", "e", "s", "c", "a", "p", "e", "s", " ", "r", "e", "p", "o", "_", "r", "o", "o", "t">>)
        ELSE Only({Result(r) : r \in {run_sandboxed(cmd, root, 60, TRUE, world)}})

\* The command line grep runs for its arguments.
GrepCmd(pattern, path, flags) ==
    <<"r", "g", " ", "-", "n", " ">> \o flags \o <<" ", "-", "-", " ", "\"">> \o pattern \o <<"\"", " ", "\"">>
    \o PathStr(safe_path(RootStr, path).path) \o <<"\"">>

\* create_venv(repo_root, venv_dir, python, recreate); after a successful
\* python -m venv the python of the virtualenv exists.
create_venv(repo_root, venv_dir, python, recreate, world) ==
    LET root == PathStr(Resolve(repo_root))
        venv_path == safe_path(repo_root, venv_dir)
        removed == recreate /\ Exists(PathStr(venv_path.path), world)
        parent == SubSeq(venv_path.path, 1, Len(venv_path.path) - 1)
        before == (IF removed THEN <<FsOp("rmtree", venv_path.path)>> ELSE <<>>)
                  \o <<FsOp("mkdir", parent)>>
        after == [world EXCEPT !.has_venv =
                     @ /\ ~(removed /\ IsUnder(Resolve(root \o <<"/", ".", "v", "e", "n", "v", "/", "b", "i", "n">>), venv_path.path))]
        cmd == Quote(python) \o <<" ", "-", "m", " ", "v", "e", "n", "v", " ">> \o Quote(PathStr(venv_path.path))
        memory_file == Resolve(repo_root) \o <<<<".", "a", "g", "e", "n", "t", "_", "m", "e", "m", "o", "r", "y", ".", "j", "s", "o", "n">>>>
        Result(out) ==
            IF out.exc # "none" THEN [out EXCEPT !.ops = before]
            ELSE IF ~Contains(out.text, <<"(", "e", "x", "i", "t", "=", "0", ")">>)
            THEN Outcome("none", <<"V", "E", "N", "V", "_", "C", "R", "E", "A", "T", "E", "_", "F", "A", "I", "L", "E", "D", "=", "t", "r", "u", "e", "\n">> \o out.text, out.children, before)
            ELSE Outcome("none",
                         <<"V", "E", "N", "V", "_", "C", "R", "E", "A", "T", "E", "D", "=", "t", "r", "u", "e", "\n">> \o <<"V", "E", "N", "V", "_", "P", "A", "T", "H", "=">> \o PathStr(venv_path.path)
                         \o <<"\n">> \o <<"V", "E", "N", "V", "_", "P", "Y", "T", "H", "O", "N", "=">> \o PathStr(venv_path.path)
                         \o <<"/", "b", "i", "n", "/", "p", "y", "t", "h", "o", "n", "\n">> \o out.text,
                         out.children, before \o <<FsOp("write", memory_file)>>)
    IN  IF ~venv_path.ok
        THEN PathDenied("none", <<"V", "E", "N", "V", "_", "C", "R", "E", "A", "T", "E", "_", "F", "A", "I", "L", "E", "D", "=", "i", "n", "v", "a", "l", "i", "d", "_", "p", "a", "t", "h", "\n", "P", "a", "t", "h", " ", "e", "s", "c", "a", "p", "e", "s", " ", "r", "e", "p", "o", "_", "r", "o", "o", "t">>)
        ELSE Only({Result(out) : out \in {run_sandboxed(cmd, root, MAX_TIMEOUT_S, TRUE, after)}})

\* The command line create_venv runs for its arguments.
CreateVenvCmd(venv_dir, python) ==
    Quote(python) \o <<" ", "-", "m", " ", "v", "e", "n", "v", " ">> \o Quote(PathStr(safe_path(RootStr, venv_dir).path))

\* run_in_venv(repo_root, cmd, timeout_s, venv_path): venv_path is <<>> when
\* the call gives none, and stored is the venv_path of the memory, <<>>
\* when there is none.
run_in_venv(repo_root, cmd, timeout_s, venv_path, stored, world) ==
    LET root == PathStr(Resolve(repo_root))
        given == IF venv_path # <<>> THEN venv_path ELSE Strip(stored)
        sp == safe_path(repo_root, given)
        resolved_venv == IF StartsWith(given, <<"/">>) THEN given ELSE PathStr(sp.path)
        bin_dir == resolved_venv \o <<"/", "b", "i", "n">>
        extra_env == [PATH |-> bin_dir \o <<":">> \o build_sandbox_env(root, FALSE, world).PATH]
        no_venv == <<"V", "E", "N", "V", "_", "R", "U", "N", "_", "F", "A", "I", "L", "E", "D", "=", "n", "o", "_", "v", "e", "n", "v", "_", "c", "o", "n", "f", "i", "g", "u", "r", "e", "d", "\n">>
                   \o <<"C", "r", "e", "a", "t", "e", " ", "a", " ", "v", "e", "n", "v", " ", "f", "i", "r", "s", "t", " ", "w", "i", "t", "h", " ", "c", "r", "e", "a", "t", "e", "_", "v", "e", "n", "v", "(", "r", "e", "p", "o", "_", "r", "o", "o", "t", ",", " ", "v", "e", "n", "v", "_", "d", "i", "r", "=", "'", ".", "v", "e", "n", "v", "'", ")">>
    IN  IF given = <<>> THEN Outcome("none", no_venv, <<>>, <<>>)
        ELSE IF ~StartsWith(given, <<"/">>) /\ ~sp.ok
        THEN IF venv_path # <<>>
             THEN PathDenied("none", <<"V", "E", "N", "V", "_", "R", "U", "N", "_", "F", "A", "I", "L", "E", "D", "=", "i", "n", "v", "a", "l", "i", "d", "_", "v", "e", "n", "v", "_", "p", "a", "t", "h", "\n">>
                                     \o <<"V", "a", "l", "u", "e", "E", "r", "r", "o", "r", ":", " ", "P", "a", "t", "h", " ", "e", "s", "c", "a", "p", "e", "s", " ", "r", "e", "p", "o", "_", "r", "o", "o", "t">>)
             ELSE Outcome("none", no_venv, <<>>, <<>>)
        ELSE IF ~Exists(resolved_venv, world)
        THEN Outcome("none",
                     IF venv_path # <<>>
                     THEN <<"V", "E", "N", "V", "_", "R", "U", "N", "_", "F", "A", "I", "L", "E", "D", "=", "v", "e", "n", "v", "_", "n", "o", "t", "_", "f", "o", "u", "n", "d", "\n", "V", "E", "N", "V", "_", "P", "A", "T", "H", "=">> \o resolved_venv
                     ELSE no_venv, <<>>, <<>>)
        ELSE IF ~Exists(bin_dir, world)
        THEN Outcome("none", <<"V", "E", "N", "V", "_", "R", "U", "N", "_", "F", "A", "I", "L", "E", "D", "=", "i", "n", "v", "a", "l", "i", "d", "_", "v", "e", "n", "v", "\n", "M", "i", "s", "s", "i", "n", "g", " ", "b", "i", "n", " ", "d", "i", "r", ":", " ">> \o bin_dir,
                     <<>>, <<>>)
        ELSE run_sandboxed_with_env(cmd, root, timeout_s, TRUE, extra_env, world)

----------------------------------------------------------------------------
(* fs_tools.py.  The files of the world are three texts in the working     *)
(* root; every other path of the root is a directory of Exists or missing. *)

\* p.is_file()
IsFile(p) ==
    p \in {Resolve(RootStr) \o <<<<"a", ".", "p", "y">>>>, Resolve(RootStr) \o <<<<"b", " ", "c", ".", "p", "y">>>>,
           Resolve(RootStr) \o <<<<"n", "o", "t", "e", "s", ".", "t", "x", "t">>>>}

\* p.read_text() of a file of the world
FileText(p) ==
    IF p = Resolve(RootStr) \o <<<<"a", ".", "p", "y">>>> THEN <<"s", "u", "d", "o", " ", "=", " ", "m", "a", "k", "e", "\n">>
    ELSE IF p = Resolve(RootStr) \o <<<<"b", " ", "c", ".", "p", "y">>>> THEN <<"x", " ", "=", " ", "1", "\n">>
    ELSE <<"n", "\n">>

\* p.is_dir()
IsDir(p, world) == Exists(PathStr(p), world) /\ ~IsFile(p)

\* p.parent
Parent(p) == IF p = <<>> THEN p ELSE SubSeq(p, 1, Len(p) - 1)

\* str(e) of the OSError of an operation on p
OSErrorText(errno, what, p) ==
    <<"[", "E", "r", "r", "n", "o", " ">> \o Str(errno) \o <<"]", " ">> \o what \o <<":", " ", "'">> \o PathStr(p) \o <<"'">>

\* read_file(repo_root, path)
read_file(repo_root, path, world) ==
    LET sp == safe_path(repo_root, path)
        p == sp.path
    IN  IF ~sp.ok THEN PathDenied("ValueError", <<"P", "a", "t", "h", " ", "e", "s", "c", "a", "p", "e", "s", " ", "r", "e", "p", "o", "_", "r", "o", "o", "t">>)
        ELSE IF IsFile(p) THEN Outcome("none", FileText(p), <<>>, <<FsOp("read", p)>>)
        ELSE IF IsDir(p, world)
        THEN Outcome("IsADirectoryError", OSErrorText(21, <<"I", "s", " ", "a", " ", "d", "i", "r", "e", "c", "t", "o", "r", "y">>, p), <<>>,
                     <<FsOp("read", p)>>)
        ELSE Outcome("FileNotFoundError", OSErrorText(2, <<"N", "o", " ", "s", "u", "c", "h", " ", "f", "i", "l", "e", " ", "o", "r", " ", "d", "i", "r", "e", "c", "t", "o", "r", "y">>, p),
                     <<>>, <<FsOp("read", p)>>)

\* write_file(repo_root, path, content), for a path whose parents are
\* directories or missing
write_file(repo_root, path, content, world) ==
    LET sp == safe_path(repo_root, path)
        p == sp.path
    IN  IF ~sp.ok THEN PathDenied("ValueError", <<"P", "a", "t", "h", " ", "e", "s", "c", "a", "p", "e", "s", " ", "r", "e", "p", "o", "_", "r", "o", "o", "t">>)
        ELSE IF IsDir(p, world)
        THEN Outcome("IsADirectoryError", OSErrorText(21, <<"I", "s", " ", "a", " ", "d", "i", "r", "e", "c", "t", "o", "r", "y">>, p), <<>>,
                     <<FsOp("mkdir", Parent(p)), FsOp("write", p)>>)
        ELSE Outcome("none",
                     <<"W", "r", "o", "t", "e", " ">> \o path \o <<" ", "(">> \o Str(Len(content)) \o <<" ", "c", "h", "a", "r", "s", ")">>, <<>>,
                     <<FsOp("mkdir", Parent(p)), FsOp("write", p)>>)

RECURSIVE Count(_, _)
\* s.count(sub), sub not empty
Count(s, sub) ==
    IF Len(s) < Len(sub) THEN 0
    ELSE IF StartsWith(s, sub) THEN 1 + Count(SubSeq(s, Len(sub) + 1, Len(s)), sub)
    ELSE Count(Tail(s), sub)

----------------------------------------------------------------------------
(* agent_v3_claude/tools.py: execute_tool_call.  A dict is a function from  *)
(* its keys, which are texts, to its values, which are texts or None.       *)

\* None as a value of a dict: no text, a text being a sequence of characters.
NoneValue == <<None>>

\* json.JSONDecodeError(msg, doc, pos) for a text of one line
JSONDecodeError(msg, pos) ==
    [exc |-> "JSONDecodeError",
     text |-> msg \o <<":", " ", "l", "i", "n", "e", " ", "1", " ", "c", "o", "l", "u", "m", "n", " ">> \o Str(pos + 1) \o <<" ", "(", "c", "h", "a", "r", " ">> \o Str(pos) \o <<")">>]

\* A value decoded from positions up to end of the text.
Decoded(kind, value, end) == [exc |-> "none", kind |-> kind, value |-> value, end |-> end]

RECURSIVE SkipWs(_, _)
\* The position after the white space at position i (from 0).
SkipWs(s, i) ==
    IF i < Len(s) /\ s[i + 1] \in {" ", "\t", "\n", "\r"} THEN SkipWs(s, i + 1) ELSE i

RECURSIVE Closing(_, _)
\* The position of the next double quote at i or after it, or -1.
Closing(s, i) ==
    IF i >= Len(s) THEN -1 ELSE IF s[i + 1] = "\"" THEN i ELSE Closing(s, i + 1)

\* The character at position i (from 0), or none past the end.
CharAt(s, i) == IF i < Len(s) THEN s[i + 1] ELSE "none"

\* A JSON string or null at position i; the strings have no escapes.
JsonValue(s, i) ==
    IF CharAt(s, i) = "\""
    THEN IF Closing(s, i + 1) = -1
         THEN JSONDecodeError(<<"U", "n", "t", "e", "r", "m", "i", "n", "a", "t", "e", "d", " ", "s", "t", "r", "i", "n", "g", " ", "s", "t", "a", "r", "t", "i", "n", "g", " ", "a", "t">>, i)
         ELSE Decoded("str", SubSeq(s, i + 2, Closing(s, i + 1)), Closing(s, i + 1) + 1)
    ELSE IF SubSeq(s, i + 1, Min2(Len(s), i + 4)) = <<"n", "u", "l", "l">>
    THEN Decoded("None", NoneValue, i + 4)
    ELSE JSONDecodeError(<<"E", "x", "p", "e", "c", "t", "i", "n", "g", " ", "v", "a", "l", "u", "e">>, i)

RECURSIVE JsonMembers(_, _, _)
\* The members of a JSON object from the key at position i on, added to acc.
JsonMembers(s, i, acc) ==
    IF CharAt(s, i) # "\""
    THEN JSONDecodeError(<<"E", "x", "p", "e", "c", "t", "i", "n", "g", " ", "p", "r", "o", "p", "e", "r", "t", "y", " ", "n", "a", "m", "e", " ", "e", "n", "c", "l", "o", "s", "e", "d", " ", "i", "n", " ", "d", "o", "u", "b", "l", "e", " ", "q", "u", "o", "t", "e", "s">>, i)
    ELSE IF Closing(s, i + 1) = -1
    THEN JSONDecodeError(<<"U", "n", "t", "e", "r", "m", "i", "n", "a", "t", "e", "d", " ", "s", "t", "r", "i", "n", "g", " ", "s", "t", "a", "r", "t", "i", "n", "g", " ", "a", "t">>, i)
    ELSE Only({IF CharAt(s, colon) # ":"
               THEN JSONDecodeError(<<"E", "x", "p", "e", "c", "t", "i", "n", "g", " ", "'", ":", "'", " ", "d", "e", "l", "i", "m", "i", "t", "e", "r">>, colon)
               ELSE Only({IF v.exc # "none" THEN v
                          ELSE IF CharAt(s, SkipWs(s, v.end)) = "}"
                          THEN Decoded("dict", (key :> v.value) @@ acc, SkipWs(s, v.end) + 1)
                          ELSE IF CharAt(s, SkipWs(s, v.end)) = ","
                          THEN JsonMembers(s, SkipWs(s, SkipWs(s, v.end) + 1),
                                           (key :> v.value) @@ acc)
                          ELSE JSONDecodeError(<<"E", "x", "p", "e", "c", "t", "i", "n", "g", " ", "'", ",", "'", " ", "d", "e", "l", "i", "m", "i", "t", "e", "r">>, SkipWs(s, v.end)) :
                          v \in {JsonValue(s, SkipWs(s, colon + 1))}}) :
               key \in {SubSeq(s, i + 2, Closing(s, i + 1))},
               colon \in {SkipWs(s, Closing(s, i + 1) + 1)}})

\* json.loads(s) for a text of one line that holds an object of strings
\* and nulls, a string or null, or that is malformed.
json_loads(s) ==
    LET start == SkipWs(s, 0)
        Whole(v) ==
            IF v.exc # "none" THEN v
            ELSE IF SkipWs(s, v.end) # Len(s) THEN JSONDecodeError(<<"E", "x", "t", "r", "a", " ", "d", "a", "t", "a">>, SkipWs(s, v.end))
            ELSE v
    IN  Only({Whole(v) :
                 v \in {IF CharAt(s, start) = "{"
                        THEN IF CharAt(s, SkipWs(s, start + 1)) = "}"
                             THEN Decoded("dict", <<>>, SkipWs(s, start + 1) + 1)
                             ELSE JsonMembers(s, SkipWs(s, start + 1), <<>>)
                        ELSE JsonValue(s, start)}})

\* The names of TOOLS, in the order of the list.
TOOLS ==
    <<<<"r", "e", "a", "d", "_", "f", "i", "l", "e">>, <<"w", "r", "i", "t", "e", "_", "f", "i", "l", "e">>, <<"e", "d", "i", "t", "_", "f", "i", "l", "e">>, <<"l", "i", "s", "t", "_", "f", "i", "l", "e", "s">>, <<"g", "r", "e", "p">>,
      <<"g", "i", "t", "_", "d", "i", "f", "f">>, <<"g", "i", "t", "_", "s", "t", "a", "t", "u", "s">>, <<"g", "i", "t", "_", "a", "d", "d">>, <<"g", "i", "t", "_", "c", "o", "m", "m", "i", "t">>, <<"g", "i", "t", "_", "l", "o", "g">>, <<"g", "i", "t", "_", "b", "r", "a", "n", "c", "h", "_", "l", "i", "s", "t">>,
      <<"g", "i", "t", "_", "c", "h", "e", "c", "k", "o", "u", "t">>, <<"g", "i", "t", "_", "r", "e", "m", "o", "t", "e", "_", "l", "i", "s", "t">>, <<"g", "i", "t", "_", "p", "r", "e", "p", "a", "r", "e", "_", "p", "r">>,
      <<"a", "p", "p", "l", "y", "_", "p", "a", "t", "c", "h">>, <<"r", "u", "n", "_", "p", "y", "t", "e", "s", "t">>, <<"r", "u", "n", "_", "c", "m", "d">>,
      <<"c", "r", "e", "a", "t", "e", "_", "v", "e", "n", "v">>, <<"r", "u", "n", "_", "i", "n", "_", "v", "e", "n", "v">>,
      <<"m", "e", "m", "o", "r", "y", "_", "s", "e", "t">>, <<"m", "e", "m", "o", "r", "y", "_", "g", "e", "t">>, <<"m", "e", "m", "o", "r", "y", "_", "l", "i", "s", "t">>, <<"m", "e", "m", "o", "r", "y", "_", "d", "e", "l", "e", "t", "e">>, <<"m", "e", "m", "o", "r", "y", "_", "a", "p", "p", "e", "n", "d">>,
      <<"s", "t", "o", "r", "e", "_", "r", "e", "p", "o", "_", "m", "a", "p">>, <<"s", "t", "o", "r", "e", "_", "t", "e", "s", "t", "_", "r", "e", "s", "u", "l", "t", "s">>, <<"c", "l", "e", "a", "r", "_", "m", "e", "m", "o", "r", "y">>>>

\* TOOL_BY_NAME.keys()
TOOL_BY_NAME == {TOOLS[i] : i \in DOMAIN TOOLS}

\* not x, for a value of a dict
Falsy(x) == x = NoneValue \/ x = <<>>

\* Mutant: repo_root is set whatever the call gave.
WithRepoRoot_Always(args, repo_root) == (<<"r", "e", "p", "o", "_", "r", "o", "o", "t">> :> repo_root) @@ args

\* The arguments with repo_root set when the call has none or a false one.
WithRepoRoot(args, repo_root) ==
    IF <<"r", "e", "p", "o", "_", "r", "o", "o", "t">> \notin DOMAIN args \/ Falsy(args[<<"r", "e", "p", "o", "_", "r", "o", "o", "t">>])
    THEN (<<"r", "e", "p", "o", "_", "r", "o", "o", "t">> :> repo_root) @@ args
    ELSE args

\* tool_fn.invoke(args) for read_file, write_file and run_cmd, called with
\* their required arguments.
Invoke(name, args, world) ==
    IF name = <<"r", "e", "a", "d", "_", "f", "i", "l", "e">> THEN read_file(args[<<"r", "e", "p", "o", "_", "r", "o", "o", "t">>], args[<<"p", "a", "t", "h">>], world)
    ELSE IF name = <<"w", "r", "i", "t", "e", "_", "f", "i", "l", "e">>
    THEN write_file(args[<<"r", "e", "p", "o", "_", "r", "o", "o", "t">>], args[<<"p", "a", "t", "h">>], args[<<"c", "o", "n", "t", "e", "n", "t">>], world)
    ELSE run_cmd(args[<<"r", "e", "p", "o", "_", "r", "o", "o", "t">>], args[<<"c", "m", "d">>], 60, world)

\* No tool was invoked.
NotInvoked == [name |-> <<>>, args |-> <<>>]

\* What execute_tool_call raises before it looks the tool up.
DispatchRaised(exc, text) ==
    Outcome(exc, text, <<>>, <<>>) @@ [invoked |-> NotInvoked]

\* The arguments of a call given as a dict.
Dict(dict) == [kind |-> "dict", dict |-> dict]

\* The arguments of a call given as a text.
Encoded(text) == [kind |-> "str", text |-> text]

\* execute_tool_call(call, repo_root).  A call is a dict with the keys name
\* and args, or without one of them; args is Dict(d), Encoded(s) or
\* [kind |-> "None"].
execute_tool_call(call, repo_root, world) ==
    LET given == IF "args" \in DOMAIN call THEN call.args ELSE Dict(<<>>)
        empty == \/ given.kind = "None"
                 \/ given.kind = "str" /\ given.text = <<>>
                 \/ given.kind = "dict" /\ DOMAIN given.dict = {}
        Dispatch(args) ==
            IF args.exc # "none" THEN DispatchRaised(args.exc, args.text)
            ELSE IF args.kind = "None"
            THEN DispatchRaised("TypeError", <<"a", "r", "g", "u", "m", "e", "n", "t", " ", "o", "f", " ", "t", "y", "p", "e", " ", "'", "N", "o", "n", "e", "T", "y", "p", "e", "'", " ", "i", "s", " ", "n", "o", "t", " ", "i", "t", "e", "r", "a", "b", "l", "e">>)
            ELSE IF args.kind = "str"
            THEN DispatchRaised("TypeError",
                                IF Contains(args.value, <<"r", "e", "p", "o", "_", "r", "o", "o", "t">>)
                                THEN <<"s", "t", "r", "i", "n", "g", " ", "i", "n", "d", "i", "c", "e", "s", " ", "m", "u", "s", "t", " ", "b", "e", " ", "i", "n", "t", "e", "g", "e", "r", "s", ",", " ", "n", "o", "t", " ", "'", "s", "t", "r", "'">>
                                ELSE <<"'", "s", "t", "r", "'", " ", "o", "b", "j", "e", "c", "t", " ", "d", "o", "e", "s", " ", "n", "o", "t", " ", "s", "u", "p", "p", "o", "r", "t", " ", "i", "t", "e", "m", " ", "a", "s", "s", "i", "g", "n", "m", "e", "n", "t">>)
            ELSE IF call.name \notin TOOL_BY_NAME
            THEN DispatchRaised("none",
                                <<"E", "R", "R", "O", "R", ":", " ", "t", "o", "o", "l", " ", "'">> \o call.name \o <<"'", " ", "n", "o", "t", " ", "f", "o", "u", "n", "d", ".", " ", "A", "v", "a", "i", "l", "a", "b", "l", "e", ":", " ", "[">>
                                \o Join(<<",", " ">>, [i \in DOMAIN TOOLS |-> <<"'">> \o TOOLS[i] \o <<"'">>])
                                \o <<"]">>)
            ELSE Only({(IF r.exc = "none" THEN r
                        ELSE [r EXCEPT !.exc = "none",
                                       !.text = <<"E", "R", "R", "O", "R", " ", "e", "x", "e", "c", "u", "t", "i", "n", "g", " ">> \o call.name \o <<":", " ">> \o r.text])
                       @@ [invoked |-> [name |-> call.name,
                                        args |-> WithRepoRoot(args.value, repo_root)]] :
                       r \in {Invoke(call.name, WithRepoRoot(args.value, repo_root), world)}})
    IN  IF "name" \notin DOMAIN call THEN DispatchRaised("KeyError", <<"'", "n", "a", "m", "e", "'">>)
        ELSE Only({Dispatch(args) :
                      args \in {IF empty THEN Decoded("dict", <<>>, 0)
                                ELSE IF given.kind = "str" THEN json_loads(given.text)
                                ELSE Decoded("dict", given.dict, 0)}})

----------------------------------------------------------------------------
(* The tools, one call at a time.  A call runs in a world: the lines typed  *)
(* at the prompts of validate_command, the environment of the agent        *)
(* process, whether the root has a .venv, and what a started child does.   *)

MaxPrompts == 3

Commands ==
    {<<"l", "s">>, <<"g", "i", "t", " ", "s", "t", "a", "t", "u", "s">>, <<"f", "o", "o">>, <<"e", "n", "v", " ", "A", "=", "1", " ", "f", "o", "o">>, <<"e", "n", "v", " ", "A", "=", "1", " ", "l", "s">>, <<"p", "y", "t", "h", "o", "n", "3", ".", "1", "1", " ", "x", ".", "p", "y">>,
     <<"l", "s", " ", ";", " ", "f", "o", "o">>, <<"l", "s", " ", "&", "&", " ", "f", "o", "o">>, <<"l", "s", " ", "|", " ", "f", "o", "o">>, <<"l", "s", ";", "f", "o", "o">>, <<"s", "u", "d", "o", " ", "l", "s">>, <<"c", "u", "r", "l", " ", "x">>,
     <<"e", "c", "h", "o", " ", "$", "(", "f", "o", "o", ")">>, <<"l", "s", " ", "&">>, <<"c", "a", "t", " ", ".", ".", "/", "r", "e", "p", "o", "2", "/", "x">>, <<"c", "a", "t", " ", ".", ".", "/", "x">>, <<"c", "a", "t", " ", "a", "/", ".", ".", "/", "b">>, <<"c", "a", "t", " ", "o", "u", "t", "/", "x">>,
     <<"c", "a", "t", " ", "/", "e", "t", "c", "/", "h", "o", "s", "t", "s">>, <<"c", "a", "t", " ", "/", "t", "m", "p", "/", "x">>, <<"c", "a", "t", " ", "/", "t", "m", "p", "f", "o", "o", "/", "x">>, <<"c", "a", "t", " ", "/", "w", "o", "r", "k", "/", "r", "e", "p", "o", "/", "a">>,
     <<"c", "a", "t", " ", "/", "w", "o", "r", "k", "/", "r", "e", "p", "o", "2", "/", "a">>, <<"c", "a", "t", " ", ".", ".", "/", "x", " ", "\"", "y">>, <<"f", "o", "o", " ", "\"", "y">>, <<"r", "m", " ", "-", "r", "f", " ", "/">>, <<"c", "a", "t", " ", "/", "e", "t", "c", "/", "p", "a", "s", "s", "w", "d">>,
     <<>>}

ReplyLines == {<<"Y", "e", "s">>, <<"n", "o">>}

RECURSIVE ReplySeqs(_)
\* The lines typed before the input ends: at most n of them.
ReplySeqs(n) ==
    IF n = 0 THEN {<<>>}
    ELSE ReplySeqs(n - 1)
         \cup {Append(r, l) : r \in {q \in ReplySeqs(n - 1) : Len(q) = n - 1}, l \in ReplyLines}

\* The prompts validate_command shows for cmd when every one is answered yes.
PromptsFor(cmd) ==
    Len(MatchingPatterns(cmd))
    + (IF extract_base_command(cmd) \in ALLOWED_COMMANDS THEN 0 ELSE 1)

ParentEnvs ==
    {[PATH |-> <<"/", "u", "s", "r", "/", "b", "i", "n", ":", "/", "o", "p", "t", "/", "e", "v", "i", "l", "/", "b", "i", "n", ":", "/", "u", "s", "r", "/", "b", "i", "n", "/", ".", ".", "/", ".", ".", "/", "o", "p", "t", "/", "e", "v", "i", "l", ":", "/", "u", "s", "r", "/", "l", "o", "c", "a", "l", "/", "b", "i", "n", "/">>,
      HOME |-> HomeStr, AWS_SECRET_ACCESS_KEY |-> <<"s", "3", "c", "r", "e", "t">>,
      http_proxy |-> <<"h", "t", "t", "p", ":", "/", "/", "p", "r", "o", "x", "y", ":", "3", "1", "2", "8">>],
     [HOME |-> HomeStr]}

ChildRuns ==
    {[kind |-> "exit", code |-> 0, out |-> <<>>],
     [kind |-> "exit", code |-> 1, out |-> <<"x", ".", "p", "y", ":", "1", ":", " ", "e", "r", "r", "o", "r", ":", " ", "b", "a", "d", "\n">>],
     [kind |-> "timeout", code |-> 0, out |-> <<>>]}

\* The worlds in which at most n lines are typed.
WorldsWith(n) ==
    {[replies |-> r, environ |-> e, has_venv |-> h, run |-> c] :
        r \in ReplySeqs(n), e \in ParentEnvs, h \in BOOLEAN, c \in ChildRuns}

\* The worlds a call with the command line cmd is followed in: lines typed
\* beyond the prompts of cmd are never read.
Worlds(cmd) == WorldsWith(Min2(MaxPrompts, PromptsFor(cmd)))

\* The tool returns or raises: the call and what it did are on record.
Returns(tool, args, world, out) ==
    \E done \in {out} :
       /\ tool_pc' = "returned"
       /\ tool_call' = [tool |-> tool, args |-> args, world |-> world]
       /\ tool_result' = [exc |-> done.exc, text |-> done.text]
       /\ children' = done.children
       /\ fs_ops' = done.ops
       /\ denied' = done.denied
       /\ UNCHANGED controller_vars
       /\ UNCHANGED context_vars
       /\ UNCHANGED <<parse_vars, memory_vars>>

RunCmd ==
    /\ tool_pc = "ready"
    /\ \E cmd \in Commands : \E world \in Worlds(cmd) :
          \E out \in {run_cmd(RootStr, cmd, 60, world)} :
             Returns("run_cmd", [cmd |-> cmd], world, out)

PytestArgs == {<<"-", "q">>, <<>>, <<"-", "q", " ", ";", " ", "f", "o", "o">>, <<"$", "(", "f", "o", "o", ")">>, <<".", ".", "/", "r", "e", "p", "o", "2">>}

RunPytest ==
    /\ tool_pc = "ready"
    /\ \E args \in PytestArgs : \E world \in Worlds(PytestCmd(args)) :
          \E out \in {run_pytest(RootStr, args, 300, world)} :
             Returns("run_pytest", [args |-> args], world, out)

ApplyPatch ==
    /\ tool_pc = "ready"
    /\ \E check \in BOOLEAN : \E world \in WorldsWith(0) :
          \E out \in {apply_patch(RootStr, check, world)} :
             Returns("apply_patch", [check |-> check], world, out)

TerminalCommands == {<<"l", "s">>, <<"f", "o", "o">>, <<"c", "u", "r", "l", " ", "x">>, <<"c", "a", "t", " ", ".", ".", "/", "x">>}

Pids == {4242}

RunTerminalCommand ==
    /\ tool_pc = "ready"
    /\ \E cmd \in TerminalCommands, is_background \in BOOLEAN, pid \in Pids :
          \E world \in IF is_background THEN WorldsWith(0) ELSE Worlds(cmd) :
             \E out \in {run_terminal_command(RootStr, cmd, is_background, 60, pid, world)} :
                Returns("run_terminal_command",
                        [cmd |-> cmd, is_background |-> is_background], world, out)

CheckedFiles == {<<"a", ".", "p", "y">>, <<"b", " ", "c", ".", "p", "y">>, <<"n", "o", "t", "e", "s", ".", "t", "x", "t">>, <<"m", "i", "s", "s", "i", "n", "g", ".", "p", "y">>}

GetErrors ==
    /\ tool_pc = "ready"
    /\ \E file_path \in CheckedFiles : \E world \in WorldsWith(0) :
          \E out \in {get_errors(RootStr, file_path, world)} :
             Returns("get_errors", [file_paths |-> <<file_path>>], world, out)

GrepPatterns == {<<"m", "a", "k", "e">>, <<"s", "u", "d", "o">>, <<"z", "z", "z">>}

GrepPaths == {<<".">>, <<"s", "u", "b">>, <<".", ".", "/", "r", "e", "p", "o", "2">>}

Grep ==
    /\ tool_pc = "ready"
    /\ \E pattern \in GrepPatterns, path \in GrepPaths :
          \E world \in IF safe_path(RootStr, path).ok THEN Worlds(GrepCmd(pattern, path, <<>>))
                        ELSE WorldsWith(0) :
             \E out \in {grep(RootStr, pattern, path, <<>>, world)} :
                Returns("grep", [pattern |-> pattern, path |-> path], world, out)

VenvDirs == {<<".", "v", "e", "n", "v">>, <<"m", "y", " ", "e", "n", "v">>, <<".", ".", "/", "x">>}

Pythons == {<<"p", "y", "t", "h", "o", "n", "3">>, <<"f", "o", "o">>}

CreateVenv ==
    /\ tool_pc = "ready"
    /\ \E venv_dir \in VenvDirs, python \in Pythons, recreate \in BOOLEAN :
          \E world \in IF safe_path(RootStr, venv_dir).ok
                        THEN Worlds(CreateVenvCmd(venv_dir, python)) ELSE WorldsWith(0) :
             \E out \in {create_venv(RootStr, venv_dir, python, recreate, world)} :
                Returns("create_venv",
                        [venv_dir |-> venv_dir, python |-> python, recreate |-> recreate],
                        world, out)

VenvCommands == {<<"l", "s">>, <<"f", "o", "o">>, <<"p", "i", "p", " ", "l", "i", "s", "t">>}

VenvPaths == {<<>>, <<".", "v", "e", "n", "v">>, <<"/", "o", "p", "t", "/", "e", "v", "i", "l", "/", "v", "e", "n", "v">>, <<".", ".", "/", "x">>}

StoredVenvPaths == {<<>>, RootStr \o <<"/", ".", "v", "e", "n", "v">>}

RunInVenv ==
    /\ tool_pc = "ready"
    /\ \E cmd \in VenvCommands, venv_path \in VenvPaths, stored \in StoredVenvPaths :
          \E world \in Worlds(cmd) :
             \E out \in {run_in_venv(RootStr, cmd, 60, venv_path, stored, world)} :
                Returns("run_in_venv",
                        [cmd |-> cmd, venv_path |-> venv_path, stored |-> stored], world, out)

FilePaths ==
    {<<"a", ".", "p", "y">>, <<"s", "u", "b", "/", "n", "e", "w", ".", "t", "x", "t">>, <<".">>, <<".", "v", "e", "n", "v", "/", "b", "i", "n">>, <<".", ".", "/", "r", "e", "p", "o", "2", "/", "x">>, <<"/", "e", "t", "c", "/", "p", "a", "s", "s", "w", "d">>, <<"o", "u", "t", "/", "x">>,
     <<"/", "w", "o", "r", "k", "/", "r", "e", "p", "o", "/", "a", ".", "p", "y">>, <<"/", "w", "o", "r", "k", "/", "r", "e", "p", "o", "2", "/", "a">>, <<"s", "u", "b", "/", ".", ".", "/", ".", ".", "/", "x">>}

\* The worlds of a file tool: it starts no child and reads no line.
FileWorlds ==
    {w \in WorldsWith(0) : w.run.kind = "timeout" /\ "PATH" \notin DOMAIN w.environ}

ReadFile ==
    /\ tool_pc = "ready"
    /\ \E path \in FilePaths, world \in FileWorlds :
          Returns("read_file", [path |-> path], world, read_file(RootStr, path, world))

FileContents == {<<"x", " ", "=", " ", "2", "\n">>}

WriteFile ==
    /\ tool_pc = "ready"
    /\ \E path \in FilePaths, content \in FileContents, world \in FileWorlds :
          Returns("write_file", [path |-> path, content |-> content], world,
                  write_file(RootStr, path, content, world))

OldStrings == {<<"m", "a", "k", "e">>, <<"z", "z", "z">>}

\* edit_file(repo_root, path, old_string, new_string), for strings without
\* line ends
EditFile ==
    /\ tool_pc = "ready"
    /\ \E path \in FilePaths, old_string \in OldStrings, world \in FileWorlds :
          LET sp == safe_path(RootStr, path)
              p == sp.path
              quoted == <<"'">> \o path \o <<"'">>
          IN  Returns("edit_file", [path |-> path, old_string |-> old_string], world,
                IF ~sp.ok THEN PathDenied("ValueError", <<"P", "a", "t", "h", " ", "e", "s", "c", "a", "p", "e", "s", " ", "r", "e", "p", "o", "_", "r", "o", "o", "t">>)
                ELSE IF ~Exists(PathStr(p), world)
                THEN Outcome("none", <<"E", "r", "r", "o", "r", ":", " ", "F", "i", "l", "e", " ">> \o quoted \o <<" ", "d", "o", "e", "s", " ", "n", "o", "t", " ", "e", "x", "i", "s", "t">>, <<>>, <<>>)
                ELSE IF ~IsFile(p)
                THEN Outcome("none", <<"E", "r", "r", "o", "r", ":", " ">> \o quoted \o <<" ", "i", "s", " ", "n", "o", "t", " ", "a", " ", "f", "i", "l", "e">>, <<>>, <<>>)
                ELSE IF ~Contains(FileText(p), old_string)
                THEN Outcome("none",
                             <<"E", "r", "r", "o", "r", ":", " ", "o", "l", "d", "_", "s", "t", "r", "i", "n", "g", " ", "n", "o", "t", " ", "f", "o", "u", "n", "d", " ", "i", "n", " ">> \o quoted
                             \o <<".", " ", "P", "l", "e", "a", "s", "e", " ", "v", "e", "r", "i", "f", "y", " ", "t", "h", "e", " ", "e", "x", "a", "c", "t", " ", "s", "t", "r", "i", "n", "g", " ", "i", "n", "c", "l", "u", "d", "i", "n", "g", " ", "w", "h", "i", "t", "e", "s", "p", "a", "c", "e", ".">>,
                             <<>>, <<FsOp("read", p)>>)
                ELSE Outcome("none",
                             (IF Count(FileText(p), old_string) > 1
                              THEN <<"W", "a", "r", "n", "i", "n", "g", ":", " ", "F", "o", "u", "n", "d", " ">> \o Str(Count(FileText(p), old_string))
                                   \o <<" ", "o", "c", "c", "u", "r", "r", "e", "n", "c", "e", "s", " ", "o", "f", " ", "o", "l", "d", "_", "s", "t", "r", "i", "n", "g", ".", " ", "A", "l", "l", " ", "w", "i", "l", "l", " ", "b", "e", " ", "r", "e", "p", "l", "a", "c", "e", "d", ".", " ">>
                              ELSE <<>>)
                             \o <<"S", "u", "c", "c", "e", "s", "s", "f", "u", "l", "l", "y", " ", "r", "e", "p", "l", "a", "c", "e", "d", " ">> \o Str(Count(FileText(p), old_string))
                             \o <<" ", "o", "c", "c", "u", "r", "r", "e", "n", "c", "e", "(", "s", ")", " ", "i", "n", " ">> \o quoted,
                             <<>>, <<FsOp("read", p), FsOp("write", p)>>))

\* create_dir(repo_root, path)
CreateDir ==
    /\ tool_pc = "ready"
    /\ \E path \in FilePaths, world \in FileWorlds :
          LET sp == safe_path(RootStr, path)
              p == sp.path
              quoted == <<"'">> \o path \o <<"'">>
          IN  Returns("create_dir", [path |-> path], world,
                IF ~sp.ok THEN PathDenied("ValueError", <<"P", "a", "t", "h", " ", "e", "s", "c", "a", "p", "e", "s", " ", "r", "e", "p", "o", "_", "r", "o", "o", "t">>)
                ELSE IF IsFile(p)
                THEN Outcome("none",
                             <<"E", "r", "r", "o", "r", " ", "c", "r", "e", "a", "t", "i", "n", "g", " ", "d", "i", "r", "e", "c", "t", "o", "r", "y", " ">> \o quoted \o <<":", " ">>
                             \o OSErrorText(17, <<"F", "i", "l", "e", " ", "e", "x", "i", "s", "t", "s">>, p), <<>>, <<FsOp("mkdir", p)>>)
                ELSE Outcome("none", <<"C", "r", "e", "a", "t", "e", "d", " ", "d", "i", "r", "e", "c", "t", "o", "r", "y", " ">> \o quoted, <<>>,
                             <<FsOp("mkdir", p)>>))

\* The directory has entries.
HasEntries(p, world) ==
    \/ p = Resolve(RootStr)
    \/ world.has_venv /\ p = Resolve(RootStr) \o <<<<".", "v", "e", "n", "v">>>>

\* remove_dir(repo_root, path, recursive)
RemoveDir ==
    /\ tool_pc = "ready"
    /\ \E path \in FilePaths, recursive \in BOOLEAN, world \in FileWorlds :
          LET sp == safe_path(RootStr, path)
              p == sp.path
              quoted == <<"'">> \o path \o <<"'">>
          IN  Returns("remove_dir", [path |-> path, recursive |-> recursive], world,
                IF ~sp.ok THEN PathDenied("ValueError", <<"P", "a", "t", "h", " ", "e", "s", "c", "a", "p", "e", "s", " ", "r", "e", "p", "o", "_", "r", "o", "o", "t">>)
                ELSE IF ~Exists(PathStr(p), world)
                THEN Outcome("none", <<"E", "r", "r", "o", "r", ":", " ", "D", "i", "r", "e", "c", "t", "o", "r", "y", " ">> \o quoted \o <<" ", "d", "o", "e", "s", " ", "n", "o", "t", " ", "e", "x", "i", "s", "t">>,
                             <<>>, <<>>)
                ELSE IF ~IsDir(p, world)
                THEN Outcome("none", <<"E", "r", "r", "o", "r", ":", " ">> \o quoted \o <<" ", "i", "s", " ", "n", "o", "t", " ", "a", " ", "d", "i", "r", "e", "c", "t", "o", "r", "y">>, <<>>, <<>>)
                ELSE IF recursive
                THEN Outcome("none",
                             <<"R", "e", "m", "o", "v", "e", "d", " ", "d", "i", "r", "e", "c", "t", "o", "r", "y", " ">> \o quoted \o <<" ", "a", "n", "d", " ", "a", "l", "l", " ", "c", "o", "n", "t", "e", "n", "t", "s", " ", "r", "e", "c", "u", "r", "s", "i", "v", "e", "l", "y">>,
                             <<>>, <<FsOp("rmtree", p)>>)
                ELSE IF HasEntries(p, world)
                THEN Outcome("none",
                             <<"E", "r", "r", "o", "r", ":", " ", "D", "i", "r", "e", "c", "t", "o", "r", "y", " ">> \o quoted
                             \o <<" ", "i", "s", " ", "n", "o", "t", " ", "e", "m", "p", "t", "y", ".", " ", "U", "s", "e", " ", "r", "e", "c", "u", "r", "s", "i", "v", "e", "=", "T", "r", "u", "e", " ", "t", "o", " ", "r", "e", "m", "o", "v", "e", " ", "w", "i", "t", "h", " ", "c", "o", "n", "t", "e", "n", "t", "s", ".">>,
                             <<>>, <<FsOp("rmdir", p)>>)
                ELSE Outcome("none", <<"R", "e", "m", "o", "v", "e", "d", " ", "e", "m", "p", "t", "y", " ", "d", "i", "r", "e", "c", "t", "o", "r", "y", " ">> \o quoted, <<>>,
                             <<FsOp("rmdir", p)>>))

SourcePaths == {<<"a", ".", "p", "y">>, <<"m", "i", "s", "s", "i", "n", "g", ".", "t", "x", "t">>, <<".", ".", "/", "r", "e", "p", "o", "2", "/", "x">>, <<"o", "u", "t", "/", "x">>}

DestPaths == {<<"s", "u", "b", "/", "b", ".", "p", "y">>, <<"n", "o", "t", "e", "s", ".", "t", "x", "t">>, <<".", ".", "/", "r", "e", "p", "o", "2", "/", "y">>, <<"/", "t", "m", "p", "/", "y">>}

\* What move_path and copy_path do before they move or copy: both paths go
\* through safe_path, the source exists and the destination does not.
\* Done(src, dst) is the outcome of the move or the copy itself.
Transfer(src_path, dst_path, world, Done(_, _)) ==
    LET src == safe_path(RootStr, src_path)
        dst == safe_path(RootStr, dst_path)
    IN  IF ~src.ok \/ ~dst.ok THEN PathDenied("ValueError", <<"P", "a", "t", "h", " ", "e", "s", "c", "a", "p", "e", "s", " ", "r", "e", "p", "o", "_", "r", "o", "o", "t">>)
        ELSE IF ~Exists(PathStr(src.path), world)
        THEN Outcome("none", <<"E", "r", "r", "o", "r", ":", " ", "S", "o", "u", "r", "c", "e", " ", "'">> \o src_path \o <<"'", " ", "d", "o", "e", "s", " ", "n", "o", "t", " ", "e", "x", "i", "s", "t">>, <<>>, <<>>)
        ELSE IF Exists(PathStr(dst.path), world)
        THEN Outcome("none", <<"E", "r", "r", "o", "r", ":", " ", "D", "e", "s", "t", "i", "n", "a", "t", "i", "o", "n", " ", "'">> \o dst_path \o <<"'", " ", "a", "l", "r", "e", "a", "d", "y", " ", "e", "x", "i", "s", "t", "s">>,
                     <<>>, <<>>)
        ELSE Done(src.path, dst.path)

\* move_path(repo_root, src_path, dst_path); src.is_dir() is asked after the
\* rename, when src is gone.
MovePath ==
    /\ tool_pc = "ready"
    /\ \E src_path \in SourcePaths, dst_path \in DestPaths, world \in FileWorlds :
          Returns("move_path", [src_path |-> src_path, dst_path |-> dst_path], world,
                  Transfer(src_path, dst_path, world,
                           LAMBDA src, dst :
                               Outcome("none",
                                       <<"M", "o", "v", "e", "d", " ", "f", "i", "l", "e", " ", "f", "r", "o", "m", " ", "'">> \o src_path \o <<"'", " ", "t", "o", " ", "'">>
                                       \o dst_path \o <<"'">>,
                                       <<>>,
                                       <<FsOp("mkdir", Parent(dst)), FsOp("rename", src),
                                         FsOp("write", dst)>>)))

\* copy_path(repo_root, src_path, dst_path)
CopyPath ==
    /\ tool_pc = "ready"
    /\ \E src_path \in SourcePaths, dst_path \in DestPaths, world \in FileWorlds :
          Returns("copy_path", [src_path |-> src_path, dst_path |-> dst_path], world,
                  Transfer(src_path, dst_path, world,
                           LAMBDA src, dst :
                               Outcome("none",
                                       (IF IsDir(src, world) THEN <<"C", "o", "p", "i", "e", "d", " ", "d", "i", "r", "e", "c", "t", "o", "r", "y", " ", "f", "r", "o", "m", " ", "'">>
                                        ELSE <<"C", "o", "p", "i", "e", "d", " ", "f", "i", "l", "e", " ", "f", "r", "o", "m", " ", "'">>)
                                       \o src_path \o <<"'", " ", "t", "o", " ", "'">> \o dst_path \o <<"'">>,
                                       <<>>,
                                       <<FsOp("mkdir", Parent(dst)), FsOp("read", src),
                                         FsOp("write", dst)>>)))

\* list_files(repo_root, path, max_entries): the files below base, sorted
ListFiles ==
    /\ tool_pc = "ready"
    /\ \E path \in FilePaths, world \in FileWorlds :
          LET sp == safe_path(RootStr, path)
              names == SelectSeq(<<<<"a", ".", "p", "y">>, <<"b", " ", "c", ".", "p", "y">>, <<"n", "o", "t", "e", "s", ".", "t", "x", "t">>>>,
                                 LAMBDA name : /\ sp.path # Resolve(RootStr) \o <<name>>
                                               /\ IsUnder(Resolve(RootStr) \o <<name>>, sp.path))
          IN  Returns("list_files", [path |-> path], world,
                IF ~sp.ok THEN PathDenied("ValueError", <<"P", "a", "t", "h", " ", "e", "s", "c", "a", "p", "e", "s", " ", "r", "e", "p", "o", "_", "r", "o", "o", "t">>)
                ELSE Outcome("none",
                             IF names = <<>> THEN <<"(", "n", "o", " ", "f", "i", "l", "e", "s", ")">> ELSE Join(<<"\n">>, names),
                             <<>>, <<FsOp("list", sp.path)>>))

\* The arguments the engine gives for a tool other than read_file and
\* write_file: as a dict without repo_root, with an empty one, with None
\* and with a directory of the caller's choice, as a JSON text of the same,
\* as a JSON text that is malformed or holds no object, and None.
CmdArgs ==
    {Dict(<<"c", "m", "d">> :> <<"l", "s">>),
     Dict((<<"c", "m", "d">> :> <<"l", "s">>) @@ (<<"r", "e", "p", "o", "_", "r", "o", "o", "t">> :> <<>>)),
     Dict((<<"c", "m", "d">> :> <<"l", "s">>) @@ (<<"r", "e", "p", "o", "_", "r", "o", "o", "t">> :> NoneValue)),
     Dict((<<"c", "m", "d">> :> <<"l", "s">>) @@ (<<"r", "e", "p", "o", "_", "r", "o", "o", "t">> :> <<"/", "w", "o", "r", "k", "/", "r", "e", "p", "o", "2">>)),
     Dict((<<"c", "m", "d">> :> <<"f", "o", "o">>) @@ (<<"r", "e", "p", "o", "_", "r", "o", "o", "t">> :> <<"/", "w", "o", "r", "k", "/", "r", "e", "p", "o">>)),
     Encoded(<<"{", "\"", "c", "m", "d", "\"", ":", " ", "\"", "l", "s", "\"", "}">>),
     Encoded(<<" ", "{", "\"", "c", "m", "d", "\"", ":", " ", "\"", "l", "s", "\"", ",", " ", "\"", "r", "e", "p", "o", "_", "r", "o", "o", "t", "\"", ":", " ", "\"", "\"", "}", " ">>),
     Encoded(<<"{", "\"", "c", "m", "d", "\"", ":", " ", "\"", "l", "s", "\"", ",", " ", "\"", "r", "e", "p", "o", "_", "r", "o", "o", "t", "\"", ":", " ", "n", "u", "l", "l", "}">>),
     Encoded(<<"{", "\"", "r", "e", "p", "o", "_", "r", "o", "o", "t", "\"", ":", " ", "\"", "/", "w", "o", "r", "k", "/", "r", "e", "p", "o", "2", "\"", ",", " ", "\"", "c", "m", "d", "\"", ":", " ", "\"", "c", "a", "t", " ", ".", ".", "/", "r", "e", "p", "o", "/", "a", ".", "p", "y", "\"", "}">>),
     Encoded(<<"{", "\"", "c", "m", "d", "\"", ":", " ", "\"", "l", "s", "\"">>),
     Encoded(<<"{", "\"", "c", "m", "d", "\"", ":", " ", "\"", "l", "s", "}">>),
     Encoded(<<"{", "\"", "c", "m", "d", "\"", " ", "\"", "l", "s", "\"", "}">>),
     Encoded(<<"{", "c", "m", "d", ":", " ", "\"", "l", "s", "\"", "}">>),
     Encoded(<<"{", "\"", "c", "m", "d", "\"", ":", " ", "l", "s", "}">>),
     Encoded(<<"{", "\"", "c", "m", "d", "\"", ":", " ", "\"", "l", "s", "\"", "}", " ", "x">>),
     Encoded(<<"c", "m", "d", "=", "l", "s">>),
     Encoded(<<"n", "u", "l", "l">>),
     Encoded(<<"\"", "l", "s", "\"">>),
     Encoded(<<"{", "}">>),
     Encoded(<<>>),
     [kind |-> "None"]}

ReadArgs ==
    {Dict(<<"p", "a", "t", "h">> :> <<"a", ".", "p", "y">>),
     Dict((<<"p", "a", "t", "h">> :> <<"a", ".", "p", "y">>) @@ (<<"r", "e", "p", "o", "_", "r", "o", "o", "t">> :> <<>>)),
     Dict((<<"p", "a", "t", "h">> :> <<"a">>) @@ (<<"r", "e", "p", "o", "_", "r", "o", "o", "t">> :> <<"/", "w", "o", "r", "k", "/", "r", "e", "p", "o", "2">>)),
     Dict(<<"p", "a", "t", "h">> :> <<".", ".", "/", "r", "e", "p", "o", "2", "/", "a">>),
     Encoded(<<"{", "\"", "p", "a", "t", "h", "\"", ":", " ", "\"", "n", "o", "t", "e", "s", ".", "t", "x", "t", "\"", "}">>),
     Encoded(<<"{", "\"", "p", "a", "t", "h", "\"", ":", " ", "\"", "n", "o", "t", "e", "s", ".", "t", "x", "t", "\"", ",", " ", "\"", "r", "e", "p", "o", "_", "r", "o", "o", "t", "\"", ":", " ", "\"", "/", "w", "o", "r", "k", "/", "r", "e", "p", "o", "2", "\"", "}">>),
     Encoded(<<"{", "\"", "p", "a", "t", "h", "\"", ":", " ", "\"", "n", "o", "t", "e", "s", ".", "t", "x", "t", "\"">>)}

WriteArgs ==
    {Dict((<<"p", "a", "t", "h">> :> <<"s", "u", "b", "/", "n", "e", "w", ".", "t", "x", "t">>) @@ (<<"c", "o", "n", "t", "e", "n", "t">> :> <<"x", " ", "=", " ", "2", "\n">>)),
     Dict((<<"p", "a", "t", "h">> :> <<"/", "e", "t", "c", "/", "p", "a", "s", "s", "w", "d">>) @@ (<<"c", "o", "n", "t", "e", "n", "t">> :> <<"x", " ", "=", " ", "2", "\n">>)),
     Encoded(<<"{", "\"", "p", "a", "t", "h", "\"", ":", " ", "\"", "b", ".", "t", "x", "t", "\"", ",", " ", "\"", "c", "o", "n", "t", "e", "n", "t", "\"", ":", " ", "\"", "x", "\"", ",", " ", "\"", "r", "e", "p", "o", "_", "r", "o", "o", "t", "\"", ":", " ", "\"", "\"", "}">>)}

\* The tool calls of the engine, each with a name; a call with arguments
\* that lack a required argument of the tool is made of an unknown tool only.
ToolCalls ==
    {[name |-> <<"r", "u", "n", "_", "c", "m", "d">>, args |-> a] :
        a \in {x \in CmdArgs : x.kind = "dict" \/ (x.kind = "str" /\ x.text \notin {<<>>, <<"{", "}">>})}}
    \cup {[name |-> <<"f", "r", "o", "b", "n", "i", "c", "a", "t", "e">>, args |-> a] : a \in CmdArgs}
    \cup {[name |-> <<"r", "e", "a", "d", "_", "f", "i", "l", "e">>, args |-> a] : a \in ReadArgs}
    \cup {[name |-> <<"w", "r", "i", "t", "e", "_", "f", "i", "l", "e">>, args |-> a] : a \in WriteArgs}
    \cup {[name |-> <<"f", "r", "o", "b", "n", "i", "c", "a", "t", "e">>]}

ExecuteToolCall ==
    /\ tool_pc = "ready"
    /\ \E call \in ToolCalls, world \in FileWorlds :
          \E out \in {execute_tool_call(call, RootStr, world)} :
             /\ tool_pc' = "returned"
             /\ tool_call' = [tool |-> "execute_tool_call", args |-> call, world |-> world]
             /\ tool_result' = [exc |-> out.exc, text |-> out.text, invoked |-> out.invoked]
             /\ children' = out.children
             /\ fs_ops' = out.ops
             /\ denied' = out.denied
             /\ UNCHANGED controller_vars
             /\ UNCHANGED context_vars
             /\ UNCHANGED <<parse_vars, memory_vars>>

\* The agent goes on to its next tool call.
NextToolCall ==
    /\ tool_pc = "returned"
    /\ tool_pc' = "ready"
    /\ tool_call' = NoCall
    /\ tool_result' = NoToolResult
    /\ children' = <<>>
    /\ fs_ops' = <<>>
    /\ denied' = "none"
    /\ UNCHANGED controller_vars
    /\ UNCHANGED context_vars
    /\ UNCHANGED <<parse_vars, memory_vars>>

SandboxInit ==
    /\ SandboxIdle
    /\ ParseIdle
    /\ MemoryIdle
    /\ ControllerIdle
    /\ ContextIdle

SandboxNext ==
    \/ RunCmd
    \/ RunPytest
    \/ ApplyPatch
    \/ RunTerminalCommand
    \/ GetErrors
    \/ Grep
    \/ CreateVenv
    \/ RunInVenv
    \/ ReadFile
    \/ WriteFile
    \/ EditFile
    \/ CreateDir
    \/ RemoveDir
    \/ MovePath
    \/ CopyPath
    \/ ListFiles
    \/ ExecuteToolCall
    \/ NextToolCall

SandboxSpec == SandboxInit /\ [][SandboxNext]_vars

----------------------------------------------------------------------------
(* Properties *)

\* C1: a session always terminates: whatever the planner, the executor and
\* the reviewer answer, the graph eventually reaches END.
C1_SessionTerminates == <>(pc = END)

\* C2: hard stop: an advance step that leaves iters >= max_iters is followed
\* by END, whatever the verdict, the plan and the step index; nothing runs
\* after END.
C2_HardStop ==
    [][ /\ (pc = "advance" /\ iters' >= max_iters => pc' = END)
        /\ (pc = END => pc' = END) ]_vars

C2_Witness ==
    /\ prev = "advance"
    /\ pc = END
    /\ verdict = "continue"
    /\ iters >= max_iters
    /\ plan # <<>>
    /\ step_index < Len(plan)

Expected ==
    << Visit("Planning", None, None), Visit("Executing", None, None),
       Visit("Reviewing", None, None), Visit("Advancing", "retry", "planner"),
       Visit("Planning", None, None), Visit("Executing", None, None),
       Visit("Reviewing", None, None), Visit("Advancing", "replan", "planner"),
       Visit("Planning", None, None), Visit("Executing", None, None),
       Visit("Reviewing", None, None), Visit("Advancing", "continue", "executor"),
       Visit("Executing", None, None), Visit("Reviewing", None, None),
       Visit("Advancing", "finish", END) >>

IsPrefix(s, t) == Len(s) <= Len(t) /\ \A i \in 1..Len(s) : s[i] = t[i]

\* C3: verdict determinism: with 2-step plans, successful steps, the verdicts
\* retry, replan, continue, continue, finish and max_iters of at least 4, the
\* nodes visited are exactly Expected: every state of such a session has
\* visited a prefix of it, and the session ends with all of it.
C3_VerdictDeterminism ==
    scenario /\ max_iters >= 4 =>
        /\ IsPrefix(visited, Expected)
        /\ pc # "IndexError"
        /\ (pc = END => visited = Expected)
        /\ (visited = Expected => pc = END)

C3_Witness == scenario /\ max_iters >= 4 /\ pc = END /\ visited = Expected

\* The hint holds the given executor output text.
HintContains(h, text) ==
    /\ h.kind \in {"feedback", "failed"}
    /\ h.body.kind = "output"
    /\ h.body.text = text

\* C4: fast-fail replan: after an executor turn with success = false the
\* planner runs next, and its prompt holds that step result's output text,
\* whatever verdict an earlier review left; after success = true the
\* reviewer runs next.
C4_FastFailReplan ==
    [][ /\ (pc = "executor" =>
              /\ (executor_output'.success => pc' = "reviewer")
              /\ (~executor_output'.success => pc' = "planner"))
        /\ (pc = "planner" /\ prev = "executor" =>
              HintContains(fix_hint', executor_output.output)) ]_vars

C4_Witness ==
    /\ prev = "planner"
    /\ verdict = "continue"
    /\ ~executor_output.none
    /\ ~executor_output.success
    /\ fix_hint.kind = "feedback"
    /\ HintContains(fix_hint, executor_output.output)

\* C5: a retry or replan verdict below the ceiling: advance ends with an
\* empty plan and step_index 0, the planner runs next, and after retry the
\* planner's prompt holds the reason and the fix suggestion of the review.
C5_RetryReplan ==
    [][ /\ (pc = "advance" /\ verdict \in {"retry", "replan"} /\ iters' < max_iters =>
              plan' = <<>> /\ step_index' = 0 /\ pc' = "planner")
        /\ (pc = "planner" /\ prev = "advance" /\ verdict = "retry" =>
              /\ fix_hint'.kind = "feedback"
              /\ fix_hint'.body.kind = "review"
              /\ fix_hint'.body.reason = Review(last_message).reason
              /\ fix_hint'.body.fix = Review(last_message).fix) ]_vars

C5_Witness ==
    /\ prev = "planner"
    /\ verdict = "retry"
    /\ iters < max_iters
    /\ fix_hint.kind = "feedback"
    /\ fix_hint.body.kind = "review"
    /\ fix_hint.body.reason = "why"
    /\ fix_hint.body.fix = "fix"

\* C6: a continue verdict below the ceiling: before the last step advance
\* adds exactly 1 to step_index, keeps the plan and the executor runs next;
\* on the last step the verdict becomes finish and the session ends.
C6_Continue ==
    [][ pc = "advance" /\ verdict = "continue" /\ iters' < max_iters =>
          /\ (step_index < Len(plan) - 1 =>
                step_index' = step_index + 1 /\ plan' = plan /\ pc' = "executor")
          /\ (step_index = Len(plan) - 1 =>
                verdict' = "finish" /\ pc' = END) ]_vars

C6_Witness ==
    /\ prev = "advance"
    /\ pc = END
    /\ verdict = "finish"
    /\ last_result.verdict = "continue"
    /\ step_index = Len(plan) - 1
    /\ iters < max_iters

\* C7: after every planner invocation step_index is 0 and the plan is the one
\* of the new response; a non-empty plan is followed by the executor, an
\* empty one by END, after which no node runs.
C7_Planner ==
    [][ /\ (pc = "planner" =>
              /\ step_index' = 0
              /\ plan' = PlannerPlan(last_message')
              /\ (plan' # <<>> => pc' = "executor")
              /\ (plan' = <<>> => pc' = END))
        /\ (pc = END => UNCHANGED vars) ]_vars

C7_Witness ==
    /\ prev = "planner"
    /\ pc = END
    /\ plan = <<>>
    /\ iters > 0

\* C8: whenever the executor or the reviewer is about to run, the plan is
\* non-empty and 0 <= step_index < len(plan); plan[step_index] never raises.
C8_StepIndexInPlan ==
    /\ pc \in {"executor", "reviewer"} =>
         plan # <<>> /\ 0 <= step_index /\ step_index < Len(plan)
    /\ pc # "IndexError"

C8_Witness ==
    /\ pc = "executor"
    /\ prev = "advance"
    /\ step_index = Len(plan) - 1
    /\ step_index > 0

\* C9 as stated: every state at END has verdict = finish or iters >= max_iters.
C9_TerminalFinishOrCap == pc = END => verdict = "finish" \/ iters >= max_iters

\* C9: every state at END has verdict = finish, or iters >= max_iters, or
\* was reached from the planner with an empty plan.
C9_TerminalFinishCapOrEmptyPlan ==
    pc = END =>
        \/ verdict = "finish"
        \/ iters >= max_iters
        \/ (prev = "planner" /\ plan = <<>>)

C9_Witness ==
    /\ pc = END
    /\ prev = "planner"
    /\ plan = <<>>
    /\ verdict = "retry"
    /\ iters < max_iters

\* C10: a planner response that fails to parse leaves a plan of exactly one
\* step and the executor runs next; a reviewer response that fails to parse
\* gives the verdict retry and advance runs next.
C10_MalformedOutput ==
    [][ /\ (pc = "planner" /\ ~parse_plan_response(last_message').ok =>
              Len(plan') = 1 /\ pc' = "executor")
        /\ (pc = "reviewer" /\ last_result'.kind = "review"
              /\ ~parse_reviewer_response(last_message').ok =>
              verdict' = "retry" /\ pc' = "advance") ]_vars

C10_Witness ==
    /\ prev = "reviewer"
    /\ plan = <<FallbackStep>>
    /\ verdict = "retry"
    /\ last_result.reason = ParseFailedReason
    /\ ~parse_reviewer_response(last_message).ok

----------------------------------------------------------------------------
(* Properties of the executor turn *)

\* The last message of the turn's list.
LastLocal == local_messages[Len(local_messages)]

\* C11: an executor turn ends exactly at the first response that requests no
\* tools; that response is parsed into executor_output, a response that
\* cannot be parsed gives {success: false, output: diagnostic}, and the
\* session goes on to the planner for a failed step and to the reviewer
\* otherwise: nothing is raised.
C11_TurnEndsAtFinalResponse ==
    [][/\ (t_pc' = "returned" /\ t_pc # "returned" => t_pc = "llm")
       /\ (t_pc = "llm" =>
             LET ai == local_messages'[Len(local_messages')]
                 parsed == parse_executor_response(ai.body)
             IN  /\ (t_pc' = "returned") <=> (ai.calls = <<>>)
                 /\ (t_pc' = "returned" =>
                       /\ executor_output' =
                             IF parsed.ok THEN ExecutorOutput(parsed.success, parsed.output)
                             ELSE ExecutorOutput(FALSE, ExecParseDiagnostic)
                       /\ last_result' = OutputResult(executor_output'.output)
                       /\ pc' \in {"planner", "reviewer"}
                       /\ (pc' = "planner") <=> ~executor_output'.success
                       /\ (~parsed.ok => pc' = "planner")))]_vars

C11_Witness ==
    /\ t_pc = "returned"
    /\ rounds >= 1
    /\ ~parse_executor_response(LastLocal.body).ok
    /\ executor_output = ExecutorOutput(FALSE, ExecParseDiagnostic)
    /\ pc = "planner"

\* C12: the executor turn loop is bounded: every turn returns, also with an
\* engine that requests a tool on every response.
C12_TurnReturns == <>(t_pc = "returned")

\* The positions of a list that hold an assistant turn requesting tools.
ToolTurns(msgs) == {p \in 1..Len(msgs) : msgs[p].type = "ai" /\ msgs[p].calls # <<>>}

\* The assistant turn at p is followed by one tool result per call, in the
\* order of the calls, the j-th with the id of the j-th call, and by no
\* further tool result.
RoundAt(msgs, p) ==
    LET n == Len(msgs[p].calls)
    IN  /\ p + n <= Len(msgs)
        /\ \A j \in 1..n :
              /\ msgs[p + j].type = "tool"
              /\ msgs[p + j].tool_call_id = msgs[p].calls[j]
        /\ (p + n + 1 <= Len(msgs) => msgs[p + n + 1].type # "tool")

\* The list holds k tool-calling rounds, each once and complete.
HoldsRounds(msgs, k) ==
    /\ Cardinality(ToolTurns(msgs)) = k
    /\ \A p \in ToolTurns(msgs) : RoundAt(msgs, p)

IsToolMessage(m) == m.type = "tool"

\* The call ids of the tool results of a list, in the order of the list.
ToolResultIds(msgs) ==
    LET results == SelectSeq(msgs, IsToolMessage)
    IN  [k \in 1..Len(results) |-> results[k].tool_call_id]

\* C14: the calls of an assistant turn are executed one at a time in the
\* order issued, and the list the engine is given on the next round holds
\* every earlier assistant turn once, followed at once by one tool result
\* per call, in the order of the calls, the i-th with the i-th call's id.
C14_ResultsFollowTurnInOrder ==
    /\ (t_pc \in {"llm", "returned"} =>
          ToolResultIds(local_messages) = [k \in 1..Len(executed) |-> executed[k].id])
    /\ (passes >= 1 =>
          HoldsRounds(safe_messages, IF t_pc = "returned" THEN rounds ELSE rounds - 1))

C14_Witness ==
    /\ t_pc = "tools"
    /\ rounds = 2
    /\ Len(safe_messages) = 6
    /\ safe_messages[4].calls = <<RoundCallId(1, 1), RoundCallId(1, 2)>>
    /\ safe_messages[5].tool_call_id = RoundCallId(1, 1)
    /\ safe_messages[6].tool_call_id = RoundCallId(1, 2)
    /\ safe_messages[5].content # safe_messages[6].content

\* C15: store completeness: the store returns the raw output of every
\* executed call that has an id, and of every tool result a pruning pass has
\* replaced, in every later state, whatever passes follow.
C15_StoreCompleteness ==
    /\ \A k \in 1..Len(executed) :
          executed[k].id # <<>> =>
             StoreGet(tool_output_store, executed[k].id) = executed[k].output
    /\ (passes >= 1 =>
          \A i \in 1..Len(safe_messages) :
             safe_messages[i] # local_messages[i] /\ local_messages[i].tool_call_id # <<>> =>
                \E k \in 1..Len(executed) :
                   /\ executed[k].id = local_messages[i].tool_call_id
                   /\ StoreGet(tool_output_store, executed[k].id) = executed[k].output)

C15_Witness ==
    /\ t_pc = "returned"
    /\ passes = 3
    /\ Len(executed) >= 2
    /\ executed[1].id = RoundCallId(1, 1)
    /\ executed[1].output = X(12)
    /\ safe_messages[5] # local_messages[5]
    /\ local_messages[5].content # X(12)
    /\ StoreGet(tool_output_store, RoundCallId(1, 1)) = X(12)

----------------------------------------------------------------------------
(* Properties of the store and the pruner *)

\* The content of the first put call made with the id.
FirstPut(id) ==
    LET first == CHOOSE k \in 1..Len(put_log) :
                    /\ put_log[k][1] = id
                    /\ \A j \in 1..(k - 1) : put_log[j][1] # id
    IN  put_log[first][2]

\* C16: the store is first-write-wins: it holds exactly the non-empty ids
\* put so far, each with the content of the first put made with it, and no
\* step removes an entry or replaces its content.
C16_FirstWriteWins ==
    /\ [](/\ DOMAIN tool_output_store = {put_log[k][1] : k \in 1..Len(put_log)} \ {<<>>}
          /\ \A id \in DOMAIN tool_output_store :
                StoreGet(tool_output_store, id) = FirstPut(id))
    /\ [][\A id \in DOMAIN tool_output_store :
            /\ id \in DOMAIN tool_output_store'
            /\ tool_output_store'[id] = tool_output_store[id]]_vars

C16_Witness ==
    /\ Len(put_log) >= 3
    /\ put_log[1][1] = CallId(1)
    /\ put_log[2][1] = CallId(1)
    /\ put_log[2][2] # put_log[1][2]
    /\ put_log[3][1] = <<>>
    /\ StoreGet(tool_output_store, CallId(1)) = put_log[1][2]

\* C17: pruning is idempotent: pruning the result of a pruning pass again
\* returns that result.
C17_PruneIdempotent == passes >= 2 => safe_messages = local_messages

\* C18: re-pruning never grows a stand-in: after the first pass no pass
\* returns a message longer than the one it was given.
C18_RepruneNeverGrows ==
    passes >= 2 =>
        \A i \in 1..Len(safe_messages) :
            Len(safe_messages[i].content) <= Len(local_messages[i].content)

\* The messages of the last pass that lie before the kept window.
BeforeWindow == 1..(Len(local_messages) - pruning_cfg.keep_last_messages)

Absent(l, h, t) == Cardinality({k \in 1..l : k > h /\ k <= l - t})

\* C20: a tool result no longer than tool_max_chars is its own stand-in; a
\* longer one becomes its first tool_head_chars characters, the omission
\* marker and its last tool_tail_chars characters (none for 0), and the
\* marker states the number of characters absent from the stand-in.
C20_StandIn ==
    passes >= 1 =>
        \A i \in BeforeWindow :
            local_messages[i].type = "tool" =>
                LET raw == local_messages[i].content
                    cfg == pruning_cfg
                IN  safe_messages[i].content =
                        IF Len(raw) <= cfg.tool_max_chars THEN raw
                        ELSE HeadChars(raw, cfg.tool_head_chars)
                                \o OmissionMarker(Absent(Len(raw), cfg.tool_head_chars,
                                                         cfg.tool_tail_chars),
                                                  LineCount(raw), local_messages[i].tool_call_id)
                                \o TailChars(raw, cfg.tool_tail_chars)

----------------------------------------------------------------------------
(* Properties of the sandbox *)

RunCmdReturned == tool_pc = "returned" /\ tool_call.tool = "run_cmd"

\* The call gave its caller a BLOCKED: text and did nothing else: no child
\* process was started and the tool touched no file.
BlockedResult ==
    /\ tool_result.exc = "none"
    /\ Contains(tool_result.text, <<"B", "L", "O", "C", "K", "E", "D", ":">>)
    /\ children = <<>>
    /\ fs_ops = <<>>

\* C21: a run_cmd call whose base command is outside ALLOWED_COMMANDS returns
\* a BLOCKED: text, starts no child process and touches no file, whatever
\* follows the base token and whatever is typed at the prompts; and no child
\* that is started runs a program outside ALLOWED_COMMANDS.
C21_AllowlistEnforced ==
    RunCmdReturned =>
        /\ extract_base_command(tool_call.args.cmd) \notin ALLOWED_COMMANDS => BlockedResult
        /\ \A i \in DOMAIN children : children[i].programs \subseteq ALLOWED_COMMANDS

\* C22: a run_cmd call whose command matches at least one of BLOCKED_PATTERNS
\* returns a BLOCKED: text and starts no child process, whatever is typed
\* at the prompts.
C22_BlocklistEnforced ==
    RunCmdReturned /\ MatchingPatterns(tool_call.args.cmd) # <<>> => BlockedResult

\* The argument tokens of a command: shlex's, or the whitespace-separated
\* words when shlex cannot split the command.
ArgTokens(cmd) ==
    LET sh == ShlexSplit(cmd)
        tokens == IF sh.ok THEN sh.tokens ELSE Split(cmd)
    IN  IF tokens = <<>> THEN <<>> ELSE Tail(tokens)

\* The path lies in the directory or below it.
LiesUnder(path, dir) == IsUnder(Resolve(path), Resolve(dir))

\* C23: a run_cmd call with an argument token that contains ".." and
\* resolves outside the working root returns a BLOCKED: text and starts no
\* child process, also when shlex cannot split the command.
C23_DotDotConfined ==
    RunCmdReturned
    /\ (\E i \in DOMAIN ArgTokens(tool_call.args.cmd) :
            LET token == ArgTokens(tool_call.args.cmd)[i]
            IN  Contains(token, <<".", ".">>) /\ ~LiesUnder(PathJoin(RootStr, token), RootStr))
    => BlockedResult

\* C24: every argument token of a command run_cmd started that begins with
\* "/" lies in the working root or in one of the safe prefixes, or below.
C24_AbsolutePathsConfined ==
    RunCmdReturned =>
        \A i \in DOMAIN children :
            \A j \in DOMAIN ArgTokens(children[i].cmd) :
                LET token == ArgTokens(children[i].cmd)[j]
                IN  StartsWith(token, <<"/">>) =>
                        \/ LiesUnder(token, RootStr)
                        \/ \E k \in DOMAIN SafePrefixes : LiesUnder(token, SafePrefixes[k])

CommandTools ==
    {"run_cmd", "run_pytest", "apply_patch", "grep", "get_errors", "run_terminal_command",
     "create_venv", "run_in_venv"}

\* C25: every child process started by a call of one of the command tools
\* was started after its command went through the blocklist scan, the
\* allowlist check and path confinement, in that order.
C25_ChildrenValidated ==
    tool_pc = "returned" /\ tool_call.tool \in CommandTools =>
        \A i \in DOMAIN children : children[i].checks = ValidationStages

PolicyTools ==
    {"run_cmd", "run_pytest", "apply_patch", "grep", "create_venv", "run_in_venv",
     "read_file", "write_file"}

\* C26: a call of a tool that runs a command or takes a path, and that ran
\* into a blocked command or a path escape, returns a text containing
\* "BLOCKED:" and raises nothing.
C26_ViolationReportedBlocked ==
    tool_pc = "returned" /\ tool_call.tool \in PolicyTools /\ denied # "none" =>
        /\ tool_result.exc = "none"
        /\ Contains(tool_result.text, <<"B", "L", "O", "C", "K", "E", "D", ":">>)

EnvTools == {"run_cmd", "run_in_venv"}

ProxyVars == {"http_proxy", "https_proxy", "HTTP_PROXY", "HTTPS_PROXY"}

\* The variables the sandbox sets itself.
SandboxVars == DOMAIN SANDBOX_ENV_OVERRIDES \cup {"PATH", "UMASK"}

\* The entry is the bin directory of a virtual environment of the working root.
IsRootVenvBin(entry) ==
    /\ LiesUnder(entry, RootStr)
    /\ Resolve(entry)[Len(Resolve(entry))] = <<"b", "i", "n">>

\* The environment of a child is rebuilt from scratch out of the parent's:
\* the proxies point nowhere, PATH holds virtual-environment bin directories
\* of the working root first and then safe directories only, and no other
\* variable of the parent is in it.
RebuiltEnv(env, parent) ==
    LET entries == SplitOn(env.PATH, {":"}, <<>>, <<>>)
    IN  /\ \A v \in ProxyVars : v \in DOMAIN env /\ env[v] = <<"h", "t", "t", "p", ":", "/", "/", "0", ".", "0", ".", "0", ".", "0", ":", "0">>
        /\ \A i \in DOMAIN entries :
              \/ \E k \in DOMAIN SafePaths : LiesUnder(entries[i], SafePaths[k])
              \/ \A j \in 1..i : IsRootVenvBin(entries[j])
        /\ \A v \in DOMAIN env \cap DOMAIN parent : v \in SandboxVars

\* C27: the environment of every child process started by run_cmd or by
\* run_in_venv is rebuilt from scratch.
C27_ChildEnvRebuilt ==
    tool_pc = "returned" /\ tool_call.tool \in EnvTools =>
        \A i \in DOMAIN children : RebuiltEnv(children[i].env, tool_call.world.environ)

FileTools ==
    {"read_file", "write_file", "edit_file", "create_dir", "remove_dir", "move_path",
     "copy_path", "list_files"}

\* The path arguments of a call of a file tool.
PathArgs(call) ==
    IF "path" \in DOMAIN call.args THEN {call.args.path}
    ELSE {call.args.src_path, call.args.dst_path}

\* The path argument, taken from the working root, resolves outside it.
Escapes(path) == ~LiesUnder(PathJoin(RootStr, path), RootStr)

\* C28: a call of a file tool with a path argument that resolves outside
\* the working root raises the ValueError of safe_path before the tool reads
\* or changes anything in the file system, and a call whose path arguments
\* all resolve to the root or below it is not refused.
C28_FileToolsConfined ==
    tool_pc = "returned" /\ tool_call.tool \in FileTools =>
        IF \E path \in PathArgs(tool_call) : Escapes(path)
        THEN /\ tool_result.exc = "ValueError"
             /\ denied = "path"
             /\ fs_ops = <<>>
             /\ children = <<>>
        ELSE denied = "none" /\ tool_result.exc # "ValueError"

\* A move whose source is a file of the root and whose destination is
\* built from ".." segments and leaves the root has been refused.
C28_Witness ==
    /\ tool_pc = "returned"
    /\ tool_call.tool = "move_path"
    /\ tool_call.args.src_path = <<"a", ".", "p", "y">>
    /\ tool_call.args.dst_path = <<".", ".", "/", "r", "e", "p", "o", "2", "/", "y">>
    /\ tool_result.exc = "ValueError"
    /\ fs_ops = <<>>

DispatchReturned == tool_pc = "returned" /\ tool_call.tool = "execute_tool_call"

\* C29: execute_tool_call raises nothing, whatever the tool call: it
\* returns a text, which for an unknown tool, for malformed arguments and
\* for a tool that raised is an error text.
C29_DispatchNeverRaises ==
    DispatchReturned => tool_result.exc = "none"

\* The arguments a tool call carries, decoded when they are a JSON text.
GivenArgs(call) ==
    IF "args" \notin DOMAIN call \/ call.args.kind = "None" THEN <<>>
    ELSE IF call.args.kind = "dict" THEN call.args.dict
    ELSE IF call.args.text = <<>> THEN <<>>
    ELSE json_loads(call.args.text).value

\* C30: the tool is invoked with the arguments of the call and repo_root:
\* the session's working root when the call has no repo_root or an empty
\* one (an empty text or None), the caller's repo_root otherwise; every
\* other argument is the caller's.
C30_RepoRootInjected ==
    DispatchReturned /\ tool_result.invoked.name # <<>> =>
        LET given == GivenArgs(tool_call.args)
            used == tool_result.invoked.args
        IN  /\ DOMAIN used = DOMAIN given \cup {<<"r", "e", "p", "o", "_", "r", "o", "o", "t">>}
            /\ \A k \in DOMAIN given \ {<<"r", "e", "p", "o", "_", "r", "o", "o", "t">>} : used[k] = given[k]
            /\ used[<<"r", "e", "p", "o", "_", "r", "o", "o", "t">>] =
                  IF <<"r", "e", "p", "o", "_", "r", "o", "o", "t">> \notin DOMAIN given \/ given[<<"r", "e", "p", "o", "_", "r", "o", "o", "t">>] \in {<<>>, NoneValue}
                  THEN RootStr
                  ELSE given[<<"r", "e", "p", "o", "_", "r", "o", "o", "t">>]

\* read_file was called with an empty repo_root, was invoked with the
\* session's working root and read a file of it.
C30_Witness ==
    /\ DispatchReturned
    /\ tool_call.args.name = <<"r", "e", "a", "d", "_", "f", "i", "l", "e">>
    /\ tool_call.args.args.kind = "dict"
    /\ <<"r", "e", "p", "o", "_", "r", "o", "o", "t">> \in DOMAIN tool_call.args.args.dict
    /\ tool_call.args.args.dict[<<"r", "e", "p", "o", "_", "r", "o", "o", "t">>] = <<>>
    /\ tool_result.invoked.name = <<"r", "e", "a", "d", "_", "f", "i", "l", "e">>
    /\ tool_result.invoked.args[<<"r", "e", "p", "o", "_", "r", "o", "o", "t">>] = RootStr
    /\ tool_result.text = <<"s", "u", "d", "o", " ", "=", " ", "m", "a", "k", "e", "\n">>

\* ------------------------------------------------------------------------
\* The response parsers, character by character
\* (nodes.py parse_plan_response and parse_reviewer_response, tools.py
\* parse_executor_response)
\* ------------------------------------------------------------------------

\* The values json.loads gives, each with its Python type.
JStr(text) == [t |-> "str", v |-> text]

JBool(b) == [t |-> "bool", v |-> b]

JInt(n) == [t |-> "int", v |-> n]

JNull == [t |-> "NoneType", v |-> <<>>]

JList(items) == [t |-> "list", v |-> items]

JDict(members) == [t |-> "dict", v |-> members]

\* A value scanned up to position end (from 0) of the text, and no value.
Scanned(v, end) == [ok |-> TRUE, v |-> v, end |-> end]

NotScanned == [ok |-> FALSE, v |-> <<>>, end |-> 0]

\* The characters a backslash stands before in a JSON string, and what the
\* two give (\u is left out).
JsonEscapes ==
    [c \in {"\"", "\\", "/", "n", "t", "r"} |->
        CASE c = "n" -> "\n" [] c = "t" -> "\t" [] c = "r" -> "\r" [] OTHER -> c]

RECURSIVE ScanString(_, _, _)
\* json.decoder.py_scanstring from position i, after the opening quote; acc
\* is the text read so far.  A control character ends the scan (strict).
ScanString(s, i, acc) ==
    IF i >= Len(s) THEN NotScanned
    ELSE IF s[i + 1] = "\"" THEN Scanned(JStr(acc), i + 1)
    ELSE IF s[i + 1] = "\\"
    THEN IF i + 1 < Len(s) /\ s[i + 2] \in DOMAIN JsonEscapes
         THEN ScanString(s, i + 2, Append(acc, JsonEscapes[s[i + 2]]))
         ELSE NotScanned
    ELSE IF s[i + 1] \in {"\n", "\t", "\r"} THEN NotScanned
    ELSE ScanString(s, i + 1, Append(acc, s[i + 1]))

RECURSIVE Digits(_, _)
\* The position after the digits at position i.
Digits(s, i) == IF i < Len(s) /\ s[i + 1] \in DigitChars THEN Digits(s, i + 1) ELSE i

RECURSIVE DigitsValue(_)
DigitsValue(d) ==
    IF d = <<>> THEN 0
    ELSE 10 * DigitsValue(SubSeq(d, 1, Len(d) - 1))
         + (CHOOSE n \in 0..9 : Str(n) = <<d[Len(d)]>>)

\* json.scanner NUMBER_RE at position i, for integers: -?(?:0|[1-9]\d*)
ScanNumber(s, i) ==
    LET from == IF CharAt(s, i) = "-" THEN i + 1 ELSE i
        to == IF CharAt(s, from) = "0" THEN from + 1 ELSE Digits(s, from)
    IN  IF to = from THEN NotScanned
        ELSE Scanned(JInt((IF from = i THEN 1 ELSE 0 - 1) * DigitsValue(SubSeq(s, from + 1, to))), to)

RECURSIVE ScanValue(_, _)
RECURSIVE ScanMembers(_, _, _)
RECURSIVE ScanItems(_, _, _)
\* json.scanner.py_make_scanner _scan_once at position i
ScanValue(s, i) ==
    CASE CharAt(s, i) = "\"" -> ScanString(s, i + 1, <<>>)
      [] CharAt(s, i) = "{" ->
            IF CharAt(s, SkipWs(s, i + 1)) = "}" THEN Scanned(JDict(<<>>), SkipWs(s, i + 1) + 1)
            ELSE ScanMembers(s, SkipWs(s, i + 1), <<>>)
      [] CharAt(s, i) = "[" ->
            IF CharAt(s, SkipWs(s, i + 1)) = "]" THEN Scanned(JList(<<>>), SkipWs(s, i + 1) + 1)
            ELSE ScanItems(s, SkipWs(s, i + 1), <<>>)
      [] CharAt(s, i) = "n" /\ SubSeq(s, i + 1, Min2(Len(s), i + 4)) = <<"n", "u", "l", "l">> -> Scanned(JNull, i + 4)
      [] CharAt(s, i) = "t" /\ SubSeq(s, i + 1, Min2(Len(s), i + 4)) = <<"t", "r", "u", "e">> -> Scanned(JBool(TRUE), i + 4)
      [] CharAt(s, i) = "f" /\ SubSeq(s, i + 1, Min2(Len(s), i + 5)) = <<"f", "a", "l", "s", "e">> -> Scanned(JBool(FALSE), i + 5)
      [] OTHER -> ScanNumber(s, i)

\* json.decoder.JSONObject from the key at position i on; acc holds the
\* members read so far, and a key read again takes the later value.
ScanMembers(s, i, acc) ==
    IF CharAt(s, i) # "\"" THEN NotScanned
    ELSE Only({IF ~key.ok \/ CharAt(s, SkipWs(s, key.end)) # ":" THEN NotScanned
               ELSE Only({IF ~value.ok THEN NotScanned
                          ELSE IF CharAt(s, SkipWs(s, value.end)) = "}"
                          THEN Scanned(JDict((key.v.v :> value.v) @@ acc), SkipWs(s, value.end) + 1)
                          ELSE IF CharAt(s, SkipWs(s, value.end)) = ","
                          THEN ScanMembers(s, SkipWs(s, SkipWs(s, value.end) + 1),
                                           (key.v.v :> value.v) @@ acc)
                          ELSE NotScanned :
                          value \in {ScanValue(s, SkipWs(s, SkipWs(s, key.end) + 1))}}) :
               key \in {ScanString(s, i + 1, <<>>)}})

\* json.decoder.JSONArray from the item at position i on
ScanItems(s, i, acc) ==
    Only({IF ~value.ok THEN NotScanned
          ELSE IF CharAt(s, SkipWs(s, value.end)) = "]"
          THEN Scanned(JList(Append(acc, value.v)), SkipWs(s, value.end) + 1)
          ELSE IF CharAt(s, SkipWs(s, value.end)) = ","
          THEN ScanItems(s, SkipWs(s, SkipWs(s, value.end) + 1), Append(acc, value.v))
          ELSE NotScanned :
          value \in {ScanValue(s, i)}})

\* json.loads(s): the value of the whole text, white space around it
\* allowed; not ok where Python raises json.JSONDecodeError.
loads(s) ==
    Only({IF value.ok /\ SkipWs(s, value.end) = Len(s) THEN value ELSE NotScanned :
          value \in {ScanValue(s, SkipWs(s, 0))}})

\* r'\{[^{}]*(?:\{[^{}]*\}[^{}]*)*\}'
json_pattern ==
    LET other == Repeat(0, Unbounded, <<NotIn({"{", "}"})>>)
    IN  <<In({"{"}), other,
          Repeat(0, Unbounded, <<In({"{"}), other, In({"}"}), other>>),
          In({"}"})>>

RECURSIVE findall(_, _, _)
\* re.findall(pat, s) from position p (from 1) on: the matches from left to
\* right, none overlapping another.  A match of json_pattern from a
\* position ends at one position only.
findall(pat, s, p) ==
    IF p > Len(s) THEN <<>>
    ELSE Only({IF ends = {} THEN findall(pat, s, p + 1)
               ELSE Only({<<SubSeq(s, p, e - 1)>> \o findall(pat, s, e) : e \in ends}) :
               ends \in {Ends(pat, s, {p})}})

RECURSIVE replace(_, _, _)
\* s.replace(old, new)
replace(s, old, new) ==
    IF s = <<>> THEN <<>>
    ELSE IF StartsWith(s, old) THEN new \o replace(SubSeq(s, Len(old) + 1, Len(s)), old, new)
    ELSE <<s[1]>> \o replace(Tail(s), old, new)

\* What a parser gave its caller: the exception it raised, or its value.
ParseRaised(exc, msg) == [exc |-> exc, msg |-> msg, value |-> <<>>]

ParseReturned(value) == [exc |-> "none", msg |-> "", value |-> value]

\* key in data, for the key of a response field
HasKey(data, key) ==
    CASE data.t = "dict" -> key \in DOMAIN data.v
      [] data.t = "list" -> \E i \in DOMAIN data.v : data.v[i] = JStr(key)
      [] data.t = "str" -> Contains(data.v, key)

\* not value, for a decoded value
JFalsy(value) ==
    CASE value.t = "NoneType" -> TRUE
      [] value.t = "bool" -> ~value.v
      [] value.t = "int" -> value.v = 0
      [] value.t = "dict" -> DOMAIN value.v = {}
      [] OTHER -> value.v = <<>>

\* The plan of a decoded response: data["plan"], a list of strings.
PlanOf(data) ==
    IF ~data.ok THEN ParseRaised("JSONDecodeError", "")
    ELSE IF data.v.t # "dict" THEN ParseRaised("TypeError", "")
    ELSE IF <<"p", "l", "a", "n">> \notin DOMAIN data.v.v THEN ParseRaised("KeyError", "plan")
    ELSE Only({IF steps.t # "list" \/ \E i \in DOMAIN steps.v : steps.v[i].t # "str"
               THEN ParseRaised("ValueError", "Plan must be a list of strings")
               ELSE ParseReturned([i \in DOMAIN steps.v |-> steps.v[i].v]) :
               steps \in {data.v.v[<<"p", "l", "a", "n">>]}})

\* parse_plan_response(content) for a content that is a str
ParsePlanText(content) ==
    IF Strip(content) = <<>>
    THEN ParseRaised("ValueError", "Empty content - planner provided no response")
    ELSE Only({IF data.ok THEN PlanOf(data)
               ELSE PlanOf(loads(replace(replace(content, <<BackquoteChar, BackquoteChar, BackquoteChar, "j", "s", "o", "n">>, <<>>), <<BackquoteChar, BackquoteChar, BackquoteChar>>, <<>>))) :
               data \in {loads(content)}})

RECURSIVE ExecutorCandidate(_)
\* The first of the matches that decodes to a dict with the keys success
\* and output (the loop of parse_executor_response), or None.
ExecutorCandidate(matches) ==
    IF matches = <<>> THEN NotScanned
    ELSE Only({IF candidate.ok /\ candidate.v.t = "dict"
                  /\ <<"s", "u", "c", "c", "e", "s", "s">> \in DOMAIN candidate.v.v /\ <<"o", "u", "t", "p", "u", "t">> \in DOMAIN candidate.v.v
               THEN candidate
               ELSE ExecutorCandidate(Tail(matches)) :
               candidate \in {loads(matches[1])}})

\* The checks of parse_executor_response on the decoded data.
ExecutorOutputOf(data) ==
    IF data.t \notin {"dict", "list", "str"} THEN ParseRaised("TypeError", "")
    ELSE IF ~HasKey(data, <<"s", "u", "c", "c", "e", "s", "s">>)
    THEN ParseRaised("ValueError", "Response must contain 'success' boolean field")
    ELSE IF data.t # "dict" THEN ParseRaised("TypeError", "")
    ELSE IF data.v[<<"s", "u", "c", "c", "e", "s", "s">>].t # "bool"
    THEN ParseRaised("ValueError", "Response must contain 'success' boolean field")
    ELSE IF <<"o", "u", "t", "p", "u", "t">> \notin DOMAIN data.v \/ data.v[<<"o", "u", "t", "p", "u", "t">>].t # "str"
    THEN ParseRaised("ValueError", "Response must contain 'output' string field")
    ELSE ParseReturned([success |-> data.v[<<"s", "u", "c", "c", "e", "s", "s">>].v, output |-> data.v[<<"o", "u", "t", "p", "u", "t">>].v])

\* parse_executor_response(content) for a content that is a str
ParseExecutorText(content) ==
    IF Strip(content) = <<>>
    THEN ParseRaised("ValueError", "Empty content - executor provided no response")
    ELSE Only({IF data.ok THEN ExecutorOutputOf(data.v)
               ELSE Only({IF candidate.ok THEN ExecutorOutputOf(candidate.v)
                          ELSE ParseRaised("ValueError", "Could not find valid JSON in response") :
                          candidate \in {ExecutorCandidate(findall(json_pattern, content, 1))}}) :
               data \in {loads(content)}})

RECURSIVE ReviewerCandidate(_)
\* The first of the matches that decodes to a dict with the key verdict
\* (the loop of parse_reviewer_response), or None.
ReviewerCandidate(matches) ==
    IF matches = <<>> THEN NotScanned
    ELSE Only({IF candidate.ok /\ candidate.v.t = "dict" /\ <<"v", "e", "r", "d", "i", "c", "t">> \in DOMAIN candidate.v.v
               THEN candidate
               ELSE ReviewerCandidate(Tail(matches)) :
               candidate \in {loads(matches[1])}})

\* data.get(key, "")
GetOrEmpty(data, key) == IF key \in DOMAIN data.v THEN data.v[key] ELSE JStr(<<>>)

\* The checks of parse_reviewer_response on the decoded data; VALID_VERDICTS
\* is a set, and a list or a dict is not hashable.
ReviewOf(data) ==
    IF data.t # "dict" THEN ParseRaised("AttributeError", "")
    ELSE Only({IF JFalsy(given) THEN ParseRaised("ValueError", "Verdict must be one of")
               ELSE IF given.t \in {"list", "dict"} THEN ParseRaised("TypeError", "")
               ELSE IF given.t # "str" \/ given.v \notin {<<"c", "o", "n", "t", "i", "n", "u", "e">>, <<"r", "e", "t", "r", "y">>, <<"r", "e", "p", "l", "a", "n">>, <<"f", "i", "n", "i", "s", "h">>}
               THEN ParseRaised("ValueError", "Verdict must be one of")
               ELSE ParseReturned([verdict |-> given.v,
                                   reason |-> GetOrEmpty(data, <<"r", "e", "a", "s", "o", "n">>),
                                   fix_suggestion |-> GetOrEmpty(data, <<"f", "i", "x", "_", "s", "u", "g", "g", "e", "s", "t", "i", "o", "n">>)]) :
               given \in {IF <<"v", "e", "r", "d", "i", "c", "t">> \in DOMAIN data.v THEN data.v[<<"v", "e", "r", "d", "i", "c", "t">>] ELSE JNull}})

\* parse_reviewer_response(content) for a content that is a str
ParseReviewerText(content) ==
    IF Strip(content) = <<>>
    THEN ParseRaised("ValueError", "Empty content - reviewer provided no response")
    ELSE Only({IF data.ok THEN ReviewOf(data.v)
               ELSE Only({IF candidate.ok THEN ReviewOf(candidate.v)
                          ELSE ParseRaised("ValueError", "Could not find valid JSON in response") :
                          candidate \in {ReviewerCandidate(findall(json_pattern, content, 1))}}) :
               data \in {loads(content)}})

\* ------------------------------------------------------------------------
\* The parsers, one response at a time
\* ------------------------------------------------------------------------

\* Payloads of the three schemas.
PlanPayloads == {<<"{", "\"", "p", "l", "a", "n", "\"", ":", " ", "[", "\"", "a", "\"", ",", " ", "\"", "b", " ", "c", "\"", "]", "}">>, <<"{", "\"", "p", "l", "a", "n", "\"", ":", " ", "[", "]", "}">>}

ResultPayloads ==
    {<<"{", "\"", "s", "u", "c", "c", "e", "s", "s", "\"", ":", " ", "t", "r", "u", "e", ",", " ", "\"", "o", "u", "t", "p", "u", "t", "\"", ":", " ", "\"", "o", "k", "\"", "}">>,
     <<"{", "\"", "s", "u", "c", "c", "e", "s", "s", "\"", ":", " ", "f", "a", "l", "s", "e", ",", " ", "\"", "o", "u", "t", "p", "u", "t", "\"", ":", " ", "\"", "e", "x", "i", "t", " ", "{", "1", "}", "\"", "}">>,
     <<"{", "\"", "s", "u", "c", "c", "e", "s", "s", "\"", ":", " ", "t", "r", "u", "e", ",", " ", "\"", "o", "u", "t", "p", "u", "t", "\"", ":", " ", "\"", "a", " ", "}", " ", "b", "\"", "}">>,
     <<"{", "\"", "s", "u", "c", "c", "e", "s", "s", "\"", ":", " ", "t", "r", "u", "e", ",", " ", "\"", "o", "u", "t", "p", "u", "t", "\"", ":", " ", "\"", "a", "\\", "n", "b", " ", "\\", "\"", "c", "\\", "\"", "\"", "}">>}

VerdictPayloads ==
    {<<"{", "\"", "v", "e", "r", "d", "i", "c", "t", "\"", ":", " ", "\"", "c", "o", "n", "t", "i", "n", "u", "e", "\"", ",", " ", "\"", "r", "e", "a", "s", "o", "n", "\"", ":", " ", "\"", "o", "k", "\"", ",", " ", "\"", "f", "i", "x", "_", "s", "u", "g", "g", "e", "s", "t", "i", "o", "n", "\"", ":", " ", "\"", "\"", "}">>,
     <<"{", "\n", " ", " ", "\"", "v", "e", "r", "d", "i", "c", "t", "\"", ":", " ", "\"", "r", "e", "t", "r", "y", "\"", ",", "\n", " ", " ", "\"", "r", "e", "a", "s", "o", "n", "\"", ":", " ", "\"", "r", "\"", ",", "\n", " ", " ", "\"", "f", "i", "x", "_", "s", "u", "g", "g", "e", "s", "t", "i", "o", "n", "\"", ":", " ", "\"", "f", "\"", "\n", "}">>,
     <<"{", "\"", "v", "e", "r", "d", "i", "c", "t", "\"", ":", " ", "\"", "f", "i", "n", "i", "s", "h", "\"", ",", " ", "\"", "r", "e", "a", "s", "o", "n", "\"", ":", " ", "\"", "a", "l", "l", " ", "{", "d", "o", "n", "e", "}", "\"", ",", " ", "\"", "f", "i", "x", "_", "s", "u", "g", "g", "e", "s", "t", "i", "o", "n", "\"", ":", " ", "\"", "\"", "}">>}

\* Fragments that decode but are no payload: a key is absent, or its value
\* has another type or is out of the set.
IllTyped ==
    {<<"{", "\"", "p", "l", "a", "n", "\"", ":", " ", "\"", "a", "\"", "}">>, <<"{", "\"", "p", "l", "a", "n", "\"", ":", " ", "[", "\"", "a", "\"", ",", " ", "1", "]", "}">>,
     <<"{", "\"", "s", "u", "c", "c", "e", "s", "s", "\"", ":", " ", "\"", "y", "e", "s", "\"", ",", " ", "\"", "o", "u", "t", "p", "u", "t", "\"", ":", " ", "\"", "o", "k", "\"", "}">>, <<"{", "\"", "s", "u", "c", "c", "e", "s", "s", "\"", ":", " ", "t", "r", "u", "e", ",", " ", "\"", "o", "u", "t", "p", "u", "t", "\"", ":", " ", "5", "}">>,
     <<"{", "\"", "s", "u", "c", "c", "e", "s", "s", "\"", ":", " ", "t", "r", "u", "e", "}">>,
     <<"{", "\"", "v", "e", "r", "d", "i", "c", "t", "\"", ":", " ", "\"", "m", "a", "y", "b", "e", "\"", ",", " ", "\"", "r", "e", "a", "s", "o", "n", "\"", ":", " ", "\"", "r", "\"", ",", " ", "\"", "f", "i", "x", "_", "s", "u", "g", "g", "e", "s", "t", "i", "o", "n", "\"", ":", " ", "\"", "\"", "}">>,
     <<"{", "\"", "v", "e", "r", "d", "i", "c", "t", "\"", ":", " ", "n", "u", "l", "l", "}">>, <<"{", "\"", "v", "e", "r", "d", "i", "c", "t", "\"", ":", " ", "[", "\"", "r", "e", "t", "r", "y", "\"", "]", "}">>, <<"{", "\"", "v", "e", "r", "d", "i", "c", "t", "\"", ":", " ", "\"", "r", "e", "p", "l", "a", "n", "\"", "}">>,
     <<"{", "\"", "n", "a", "m", "e", "\"", ":", " ", "\"", "t", "\"", ",", " ", "\"", "v", "a", "l", "u", "e", "\"", ":", " ", "1", "2", "3", "}">>, <<"{", "\"", "a", "\"", ":", " ", "{", "\"", "b", "\"", ":", " ", "-", "1", "}", "}">>}

\* Texts without a fragment that decodes to an object.
NoObject == {<<>>, <<" ", " ", "\n">>, <<"n", "o", " ", "j", "s", "o", "n", " ", "h", "e", "r", "e">>, <<"{", "o", "o", "p", "s", "}">>, <<"[", "\"", "s", "u", "c", "c", "e", "s", "s", "\"", "]">>, <<"\"", "s", "u", "c", "c", "e", "s", "s", "\"">>, <<"7">>, <<"n", "u", "l", "l">>}

\* Brace-free prose before and after a payload.
ProseBefore == {<<>>, <<"H", "e", "r", "e", " ", "i", "s", " ", "t", "h", "e", " ", "r", "e", "s", "u", "l", "t", ":", "\n", "\n">>, <<BackquoteChar, BackquoteChar, BackquoteChar, "j", "s", "o", "n", "\n">>, <<"S", "e", "e", " ", "[", "1", "]", ":", " ">>, <<"[">>}

ProseAfter == {<<>>, <<"\n", "\n", "D", "o", "n", "e", ".">>, <<"\n", BackquoteChar, BackquoteChar, BackquoteChar>>, <<"]">>}

Payloads == PlanPayloads \cup ResultPayloads \cup VerdictPayloads

\* Two fragments in one text.
TwoFragments ==
    {first \o <<"\n", "T", "h", "e", "n", ":", " ">> \o second :
        first \in IllTyped \cup {<<"{", "o", "o", "p", "s", "}">>},
        second \in {<<"{", "\"", "s", "u", "c", "c", "e", "s", "s", "\"", ":", " ", "t", "r", "u", "e", ",", " ", "\"", "o", "u", "t", "p", "u", "t", "\"", ":", " ", "\"", "o", "k", "\"", "}">>,
                    <<"{", "\"", "v", "e", "r", "d", "i", "c", "t", "\"", ":", " ", "\"", "c", "o", "n", "t", "i", "n", "u", "e", "\"", ",", " ", "\"", "r", "e", "a", "s", "o", "n", "\"", ":", " ", "\"", "o", "k", "\"", ",", " ", "\"", "f", "i", "x", "_", "s", "u", "g", "g", "e", "s", "t", "i", "o", "n", "\"", ":", " ", "\"", "\"", "}">>}}

\* The response contents the parsers are given.
Responses ==
    {before \o body \o after :
        before \in ProseBefore, body \in Payloads \cup IllTyped, after \in ProseAfter}
    \cup {before \o body \o <<"\n">> : before \in {<<>>, <<"R", "e", "s", "u", "l", "t", ":", " ">>}, body \in TwoFragments}
    \cup NoObject

NotParsed(content) == [target |-> "none", content |-> content]

Parsed(target, content, result) == [target |-> target, content |-> content, result |-> result]

ParseInit ==
    /\ SandboxIdle
    /\ MemoryIdle
    /\ ControllerIdle
    /\ ContextIdle
    /\ parsing \in {NotParsed(content) : content \in Responses}

\* The planner's response goes through parse_plan_response.
ParsePlan ==
    /\ parsing.target = "none"
    /\ \E result \in {ParsePlanText(parsing.content)} :
          parsing' = Parsed("plan", parsing.content, result)
    /\ UNCHANGED <<controller_vars, context_vars, sandbox_vars, memory_vars>>

\* The executor's final response goes through parse_executor_response.
ParseExecutor ==
    /\ parsing.target = "none"
    /\ \E result \in {ParseExecutorText(parsing.content)} :
          parsing' = Parsed("step result", parsing.content, result)
    /\ UNCHANGED <<controller_vars, context_vars, sandbox_vars, memory_vars>>

\* The reviewer's response goes through parse_reviewer_response.
ParseReviewer ==
    /\ parsing.target = "none"
    /\ \E result \in {ParseReviewerText(parsing.content)} :
          parsing' = Parsed("verdict", parsing.content, result)
    /\ UNCHANGED <<controller_vars, context_vars, sandbox_vars, memory_vars>>

ParseNext == ParsePlan \/ ParseExecutor \/ ParseReviewer

ParseSpec == ParseInit /\ [][ParseNext]_vars

\* ------------------------------------------------------------------------
\* The memory store (ai_researcher_tools/memory_tools.py)
\* ------------------------------------------------------------------------

WORKING_DIRECTORY == <<"w", "o", "r", "k", "i", "n", "g", "_", "d", "i", "r", "e", "c", "t", "o", "r", "y">>

NOT_FOUND == <<"(", "n", "o", "t", " ", "f", "o", "u", "n", "d", ")">>

\* A second working root, and the working roots memory operations are made
\* under.  NOT_FOUND as a root is the directory of that name under the
\* current directory, which does not exist.
OtherRoot == <<"/", "w", "o", "r", "k", "/", "r", "e", "p", "o", "2">>

MemoryRoots == {RootStr, OtherRoot, NOT_FOUND}

DirExists(repo_root) == repo_root \in {RootStr, OtherRoot}

\* datetime.now().isoformat(); the clock reads the same at every call.
Now == <<"2", "0", "2", "6", "-", "0", "1", "-", "0", "1", "T", "0", "0", ":", "0", "0", ":", "0", "0">>

\* The keys of the model in sorted order.  A dict of Python keeps its keys
\* in the order of insertion, which no reader of the file depends on; the
\* model writes them sorted.
SortedKeys == <<<<"k">>, <<"u", "p", "d", "a", "t", "e", "d", "_", "a", "t">>, <<"v", "a", "l", "u", "e">>, WORKING_DIRECTORY>>

RECURSIVE KeysIn(_, _)
\* The keys of order that the dict has, in that order.
KeysIn(order, dict) ==
    IF order = <<>> THEN <<>>
    ELSE (IF order[1] \in DOMAIN dict THEN <<order[1]>> ELSE <<>>) \o KeysIn(Tail(order), dict)

RECURSIVE Escaped(_)
\* json.encoder.py_encode_basestring_ascii without the quotes, for ASCII
Escaped(text) ==
    IF text = <<>> THEN <<>>
    ELSE (CASE text[1] = "\"" -> <<"\\", "\"">>
            [] text[1] = "\\" -> <<"\\", "\\">>
            [] text[1] = "\n" -> <<"\\", "n">>
            [] text[1] = "\r" -> <<"\\", "r">>
            [] text[1] = "\t" -> <<"\\", "t">>
            [] OTHER -> <<text[1]>>) \o Escaped(Tail(text))

Quoted(text) == <<"\"">> \o Escaped(text) \o <<"\"">>

Indent(level) == [i \in 1..(2 * level) |-> " "]

RECURSIVE Dump(_, _)
\* json.dumps(value, indent=2) for a value nested level deep
Dump(value, level) ==
    CASE value.t = "str" -> Quoted(value.v)
      [] value.t = "bool" -> IF value.v THEN <<"t", "r", "u", "e">> ELSE <<"f", "a", "l", "s", "e">>
      [] value.t = "NoneType" -> <<"n", "u", "l", "l">>
      [] value.t = "int" -> Str(value.v)
      [] value.t = "list" ->
            IF value.v = <<>> THEN <<"[", "]">>
            ELSE <<"[", "\n">>
                 \o Join(<<",", "\n">>, [i \in DOMAIN value.v |-> Indent(level + 1) \o Dump(value.v[i], level + 1)])
                 \o <<"\n">> \o Indent(level) \o <<"]">>
      [] value.t = "dict" ->
            IF DOMAIN value.v = {} THEN <<"{", "}">>
            ELSE Only({<<"{", "\n">>
                       \o Join(<<",", "\n">>,
                               [i \in DOMAIN keys |->
                                  Indent(level + 1) \o Quoted(keys[i]) \o <<":", " ">>
                                  \o Dump(value.v[keys[i]], level + 1)])
                       \o <<"\n">> \o Indent(level) \o <<"}">> :
                       keys \in {KeysIn(SortedKeys, value.v)}})

\* json.dumps(memory, indent=2, default=str)
dumps(memory) == Dump(JDict(memory), 0)

\* The process and the disk, as the memory functions see them.
Memory(store, files) == [store |-> store, files |-> files]

\* {**disk_mem, **_MEMORY_STORE}
Merged(disk_mem, store) ==
    [key \in DOMAIN disk_mem \cup DOMAIN store |->
        IF key \in DOMAIN store THEN store[key] ELSE disk_mem[key]]

\* del memory[key]
Without(memory, key) == [other \in DOMAIN memory \ {key} |-> memory[other]]

\* mem_file.exists()
FileExists(mem, repo_root) == DirExists(repo_root) /\ mem.files[repo_root] # NoneValue

\* _load_memory(repo_root): the file decoded, {} when there is no file or it
\* does not decode, with the entries of the process over it.  The file
\* holds an object, as _save_memory writes it.
LoadMemory(mem, repo_root) ==
    IF ~FileExists(mem, repo_root) THEN Merged(<<>>, mem.store)
    ELSE Only({IF disk.ok THEN Merged(disk.v.v, mem.store) ELSE Merged(<<>>, mem.store) :
               disk \in {loads(mem.files[repo_root])}})

\* _save_memory(repo_root, memory): the text is written; the IOError of a
\* directory that does not exist is passed over.
SaveMemory(mem, repo_root, memory) ==
    IF DirExists(repo_root)
    THEN Memory(mem.store, [mem.files EXCEPT ![repo_root] = dumps(memory)])
    ELSE mem

\* {"value": value, "updated_at": datetime.now().isoformat()}
Entry(value) == JDict((<<"v", "a", "l", "u", "e">> :> JStr(value)) @@ (<<"u", "p", "d", "a", "t", "e", "d", "_", "a", "t">> :> JStr(Now)))

\* What a memory function did: the memory after it and the text returned.
Did(mem, text) == [mem |-> mem, text |-> text]

\* memory_set_internal(repo_root, key, value)
memory_set_internal(mem, repo_root, key, value) ==
    Only({Did(SaveMemory(stored, repo_root, LoadMemory(stored, repo_root)),
              <<"S", "t", "o", "r", "e", "d", " ", "'">> \o key \o <<"'", " ", "(">> \o Str(Len(value)) \o <<" ", "c", "h", "a", "r", "s", ")">>) :
          stored \in {Memory((key :> Entry(value)) @@ mem.store, mem.files)}})

\* memory_get_internal(repo_root, key); every entry is a dict with a value,
\* as memory_set_internal makes them.
memory_get_internal(mem, repo_root, key) ==
    Only({IF key \in DOMAIN memory THEN memory[key].v[<<"v", "a", "l", "u", "e">>].v ELSE NOT_FOUND :
          memory \in {LoadMemory(mem, repo_root)}})

\* memory_list(repo_root)
memory_list(mem, repo_root) ==
    Only({IF DOMAIN memory = {} THEN <<"(", "m", "e", "m", "o", "r", "y", " ", "i", "s", " ", "e", "m", "p", "t", "y", ")">>
          ELSE Join(<<"\n">>,
                    <<<<"K", "e", "y", " ", "|", " ", "S", "i", "z", "e", " ", "|", " ", "U", "p", "d", "a", "t", "e", "d">>, [i \in 1..50 |-> "-"]>>
                    \o [i \in DOMAIN keys |->
                          keys[i] \o <<" ", "|", " ">> \o Str(Len(memory[keys[i]].v[<<"v", "a", "l", "u", "e">>].v)) \o <<" ", "c", "h", "a", "r", "s", " ", "|", " ">>
                          \o memory[keys[i]].v[<<"u", "p", "d", "a", "t", "e", "d", "_", "a", "t">>].v]) :
          memory \in {LoadMemory(mem, repo_root)},
          keys \in {KeysIn(SortedKeys, LoadMemory(mem, repo_root))}})

\* memory_delete(repo_root, key)
memory_delete(mem, repo_root, key) ==
    Only({IF key \in DOMAIN memory
          THEN Did(SaveMemory(forgotten, repo_root, Without(memory, key)), <<"D", "e", "l", "e", "t", "e", "d", " ", "'">> \o key \o <<"'">>)
          ELSE IF key \in DOMAIN mem.store
          THEN Did(forgotten, <<"D", "e", "l", "e", "t", "e", "d", " ", "'">> \o key \o <<"'">>)
          ELSE Did(mem, <<"K", "e", "y", " ", "'">> \o key \o <<"'", " ", "n", "o", "t", " ", "f", "o", "u", "n", "d">>) :
          memory \in {LoadMemory(mem, repo_root)},
          forgotten \in {Memory(Without(mem.store, key), mem.files)}})

\* memory_append(repo_root, key, value, separator)
memory_append(mem, repo_root, key, value, separator) ==
    Only({memory_set_internal(mem, repo_root, key,
                              IF existing = NOT_FOUND THEN value ELSE existing \o separator \o value) :
          existing \in {memory_get_internal(mem, repo_root, key)}})

\* clear_memory(repo_root)
clear_memory(mem, repo_root) ==
    IF FileExists(mem, repo_root)
    THEN Did(Memory(<<>>, [mem.files EXCEPT ![repo_root] = NoneValue]),
             <<"C", "l", "e", "a", "r", "e", "d", " ", "a", "l", "l", " ", "m", "e", "m", "o", "r", "y", " ", "(", "i", "n", "-", "m", "e", "m", "o", "r", "y", " ", "a", "n", "d", " ", "d", "i", "s", "k", ")">>)
    ELSE Did(Memory(<<>>, mem.files), <<"C", "l", "e", "a", "r", "e", "d", " ", "a", "l", "l", " ", "m", "e", "m", "o", "r", "y">>)

\* ------------------------------------------------------------------------
\* The memory store and the working root, one operation at a time
\* ------------------------------------------------------------------------

MaxMemoryCalls == 2

\* The (key, value) pairs memory_set is called with, the (key, value,
\* separator) triples of memory_append and the keys of memory_delete.
SetArgs == {<<WORKING_DIRECTORY, OtherRoot>>, <<<<"k">>, <<"a">>>>, <<<<"k">>, NOT_FOUND>>}

AppendArgs == {<<<<"k">>, <<"b">>>>}

Separators == {<<"\n">>, <<",", " ">>}

DeleteKeys == {WORKING_DIRECTORY, <<"k">>}

\* No file anywhere, or the file an earlier session left under a root.
NoFiles == [repo_root \in MemoryRoots |-> NoneValue]

InitialFiles ==
    {NoFiles,
     [NoFiles EXCEPT ![RootStr] = dumps(<<"k">> :> Entry(<<"o", "l", "d">>))],
     [NoFiles EXCEPT ![OtherRoot] = dumps(<<"k">> :> Entry(<<"o", "t", "h", "e", "r">>))]}

NoMemoryCall ==
    [op |-> "none", root |-> <<>>, key |-> <<>>, value |-> <<>>, separator |-> <<>>,
     text |-> <<>>, n |-> 0, roots |-> {}]

\* A session created with the working root RootStr in a new process.
MemoryInit ==
    /\ SandboxIdle
    /\ ParseIdle
    /\ ControllerIdle
    /\ ContextIdle
    /\ MEMORY_STORE = <<>>
    /\ memory_files \in InitialFiles
    /\ state_repo_root = RootStr
    /\ memory_call = NoMemoryCall

CurrentMemory == Memory(MEMORY_STORE, memory_files)

\* The roots a tool call of the engine runs under: state["repo_root"], which
\* execute_tool_call injects, or the repo_root the call gives itself.  The
\* engine is called by the executor, after the first run of the planner.
CallRoots ==
    IF memory_call.op = "none" \/ memory_call.n >= MaxMemoryCalls THEN {}
    ELSE {state_repo_root, RootStr, OtherRoot}

\* A memory function was called and returned; n counts the tool calls of
\* the engine.
MemoryCalled(op, repo_root, key, value, separator, did) ==
    /\ MEMORY_STORE' = did.mem.store
    /\ memory_files' = did.mem.files
    /\ memory_call' = [op |-> op, root |-> repo_root, key |-> key, value |-> value,
                       separator |-> separator, text |-> did.text,
                       n |-> IF op \in {"planner_node", "executor_node"}
                             THEN memory_call.n ELSE memory_call.n + 1,
                       roots |-> memory_call.roots \cup {repo_root}]
    /\ UNCHANGED <<controller_vars, context_vars, sandbox_vars, parse_vars>>

MemorySet ==
    \E repo_root \in CallRoots, args \in SetArgs :
        \E did \in {memory_set_internal(CurrentMemory, repo_root, args[1], args[2])} :
            /\ MemoryCalled("memory_set", repo_root, args[1], args[2], <<>>, did)
            /\ UNCHANGED state_repo_root

MemoryAppend ==
    \E repo_root \in CallRoots, args \in AppendArgs, separator \in Separators :
        \E did \in {memory_append(CurrentMemory, repo_root, args[1], args[2], separator)} :
            /\ MemoryCalled("memory_append", repo_root, args[1], args[2], separator, did)
            /\ UNCHANGED state_repo_root

MemoryDelete ==
    \E repo_root \in CallRoots, key \in DeleteKeys :
        \E did \in {memory_delete(CurrentMemory, repo_root, key)} :
            /\ MemoryCalled("memory_delete", repo_root, key, <<>>, <<>>, did)
            /\ UNCHANGED state_repo_root

ClearMemory ==
    \E repo_root \in CallRoots :
        \E did \in {clear_memory(CurrentMemory, repo_root)} :
            /\ MemoryCalled("clear_memory", repo_root, <<>>, <<>>, <<>>, did)
            /\ UNCHANGED state_repo_root

\* The memory part of planner_node: while iters is 0 the planner saves the
\* working root.  The planner runs again at iters 0 after every failed step.
PlannerSavesRoot ==
    /\ iters = 0
    /\ \E did \in {memory_set_internal(CurrentMemory, state_repo_root, WORKING_DIRECTORY, state_repo_root)} :
          MemoryCalled("planner_node", state_repo_root, WORKING_DIRECTORY, state_repo_root, <<>>, did)
    /\ UNCHANGED state_repo_root

\* The text executor_node compares the answer of memory_get with.
KeyNotFoundText == <<"K", "e", "y", " ", "'", "w", "o", "r", "k", "i", "n", "g", "_", "d", "i", "r", "e", "c", "t", "o", "r", "y", "'", " ", "n", "o", "t", " ", "f", "o", "u", "n", "d", " ", "i", "n", " ", "m", "e", "m", "o", "r", "y", ".">>

\* The memory part of executor_node: the working root is recalled from the
\* memory before the step runs.  The executor runs after the planner.
ExecutorRecallsRoot ==
    /\ memory_call.op # "none"
    /\ \E saved_workdir \in {memory_get_internal(CurrentMemory, state_repo_root, WORKING_DIRECTORY)} :
          /\ MemoryCalled("executor_node", state_repo_root, WORKING_DIRECTORY, <<>>, <<>>,
                          Did(CurrentMemory, saved_workdir))
          /\ state_repo_root' = IF saved_workdir # <<>> /\ saved_workdir # KeyNotFoundText
                                THEN saved_workdir
                                ELSE state_repo_root

MemoryNext ==
    \/ MemorySet
    \/ MemoryAppend
    \/ MemoryDelete
    \/ ClearMemory
    \/ PlannerSavesRoot
    \/ ExecutorRecallsRoot

MemorySpec == MemoryInit /\ [][MemoryNext]_vars

\* ------------------------------------------------------------------------
\* Properties of the parsers
\* ------------------------------------------------------------------------

BraceFree(text) == \A i \in DOMAIN text : text[i] \notin {"{", "}"}

\* The well-formed payloads of a parse target's schema.
SchemaPayloads(target) ==
    CASE target = "plan" -> PlanPayloads
      [] target = "step result" -> ResultPayloads
      [] target = "verdict" -> VerdictPayloads
      [] OTHER -> {}

\* What the parser of a target makes of a content.
ParseAs(target, content) ==
    CASE target = "plan" -> ParsePlanText(content)
      [] target = "step result" -> ParseExecutorText(content)
      [] target = "verdict" -> ParseReviewerText(content)

\* The bare payload the parsed content is made of with brace-free prose
\* around it, if any.
PayloadsWithin ==
    {payload \in SchemaPayloads(parsing.target) :
        \E before \in ProseBefore, after \in ProseAfter :
            /\ BraceFree(before) /\ BraceFree(after)
            /\ parsing.content = before \o payload \o after}

\* C31: a response made of brace-free prose, one well-formed payload of the
\* target's schema and brace-free prose again is parsed to the values of
\* that payload, for each of the three parse targets.
C31_ProseAroundPayloadTolerated ==
    \A payload \in PayloadsWithin :
        \E bare \in {ParseAs(parsing.target, payload)} :
            bare.exc = "none" /\ parsing.result = bare

\* The required keys of a decoded fragment are present and well-typed:
\* success a boolean and output a string, or verdict in the fixed set.
WellTyped(target, value) ==
    /\ value.t = "dict"
    /\ CASE target = "step result" -> ExecutorOutputOf(value).exc = "none"
         [] target = "verdict" -> ReviewOf(value).exc = "none"

\* The values of a well-typed fragment.
ValuesOf(target, value) ==
    IF target = "step result" THEN ExecutorOutputOf(value) ELSE ReviewOf(value)

RECURSIVE FirstWellTyped(_, _)
\* The first of the fragments, in text order, that decodes and is
\* well-typed, or not ok when there is none.
FirstWellTyped(target, fragments) ==
    IF fragments = <<>> THEN NotScanned
    ELSE Only({IF value.ok /\ WellTyped(target, value.v) THEN value
               ELSE FirstWellTyped(target, Tail(fragments)) :
               value \in {loads(fragments[1])}})

\* C32: when the text does not decode as a whole and holds several
\* brace-delimited fragments, the step-result parser and the verdict parser
\* return the first fragment that decodes with its required keys present
\* and well-typed; the fragments before it are skipped.
C32_FirstWellTypedFragmentReturned ==
    parsing.target \in {"step result", "verdict"} /\ ~loads(parsing.content).ok =>
        \A fragments \in {findall(json_pattern, parsing.content, 1)} :
            Len(fragments) > 1 =>
                \A first \in {FirstWellTyped(parsing.target, fragments)} :
                    IF first.ok THEN parsing.result = ValuesOf(parsing.target, first.v)
                    ELSE parsing.result.exc # "none"

\* ------------------------------------------------------------------------
\* Properties of the verdict, the memory store and the working root
\* ------------------------------------------------------------------------

\* The reviewer consults the engine: the step did not fail.
ReviewerAsksEngine == pc = "reviewer" /\ ~(~executor_output.none /\ ~executor_output.success)

\* C33: the session verdict is None, and that only until the first review,
\* or one of continue, retry, replan and finish; a reviewer response that
\* does not parse (empty, not a text, no well-formed candidate, a verdict out
\* of the set) never becomes the verdict, which is retry then.
C33_VerdictInFixedSet ==
    /\ [](verdict \in VALID_VERDICTS \cup {None})
    /\ [][verdict' = None => verdict = None /\ pc # "reviewer"]_vars
    /\ [][ReviewerAsksEngine /\ ~parse_reviewer_response(last_message').ok => verdict' = "retry"]_vars

\* A response of the reviewer failed to parse and the verdict is retry.
C33_Witness ==
    /\ pc = "advance" /\ prev = "reviewer"
    /\ last_message \in ReviewerContents
    /\ last_message.form = "json" /\ last_message.verdict = "maybe"
    /\ verdict = "retry"

\* The verdict parse_reviewer_response returns for a text is one of the four.
ParsedVerdictValid ==
    parsing.target = "verdict" /\ parsing.result.exc = "none" =>
        parsing.result.value.verdict \in {<<"c", "o", "n", "t", "i", "n", "u", "e">>, <<"r", "e", "t", "r", "y">>, <<"r", "e", "p", "l", "a", "n">>, <<"f", "i", "n", "i", "s", "h">>}

\* C39: the reviewer is entered only after a successful step: whenever the
\* graph is about to run the reviewer, executor_output is set and its
\* success is true, so the reviewer's automatic retry is never taken, and
\* every advance acts on the verdict the reviewer gave for the step that
\* was just executed.
C39_ReviewerOnlyAfterSuccess ==
    /\ [](pc = "reviewer" =>
            prev = "executor" /\ ~executor_output.none /\ executor_output.success)
    /\ [](pc = "advance" => prev = "reviewer")
    /\ [][pc = "reviewer" =>
            /\ ReviewerAsksEngine
            /\ \E c \in ReviewerContents : last_message' = c /\ verdict' = Review(c).verdict
            /\ pc' = "advance"
            /\ UNCHANGED <<executor_output, plan, step_index>>]_vars

\* The reviewer gave a verdict on a successful step, and advance is next.
C39_Witness ==
    /\ pc = "advance" /\ prev = "reviewer"
    /\ ~executor_output.none /\ executor_output.success
    /\ verdict = "continue"

MemoryKeys == {<<"k">>, WORKING_DIRECTORY}

\* The memory a later session finds: the files as they are and an empty
\* _MEMORY_STORE.
LaterMemory == Memory(<<>>, memory_files)

\* The text of memory_list has a line for the key.
Names(text, key) == Contains(text, <<"\n">> \o key \o <<" ", "|", " ">>)

\* A tool call or the planner wrote to the memory in this step.
Wrote(ops) == memory_call' # memory_call /\ memory_call'.op \in ops

\* So far every operation was made under the one working root.
OneRoot == Cardinality(memory_call'.roots) = 1

\* What get(key) is to return after the call, mem being the memory before
\* it, if the store is a plain key/value map.
PlainGet(mem, call, key) ==
    IF call.op = "clear_memory" THEN NOT_FOUND
    ELSE IF key # call.key THEN memory_get_internal(mem, call.root, key)
    ELSE IF call.op = "memory_delete" THEN NOT_FOUND
    ELSE IF call.op = "memory_append" /\ key \in DOMAIN LoadMemory(mem, call.root)
    THEN memory_get_internal(mem, call.root, key) \o call.separator \o call.value
    ELSE call.value

\* C34: under one working root in one process the memory store is a plain
\* key/value map: after set(k, v) get(k) is v; after append(k, v, sep) it is
\* x + sep + v when k held x, whatever the string x, and v when k was absent;
\* after delete(k) and after clear it is not-found; the other keys are as
\* before; and the list names exactly the keys whose get is not not-found.
C34_PlainKeyValueMap ==
    [][OneRoot /\ Wrote({"memory_set", "memory_append", "memory_delete", "clear_memory", "planner_node"}) =>
          \E before \in {CurrentMemory}, after \in {CurrentMemory'}, call \in {memory_call'} :
              \E listed \in {memory_list(after, call.root)} :
                  \A key \in MemoryKeys :
                      \E got \in {memory_get_internal(after, call.root, key)} :
                          /\ got = PlainGet(before, call, key)
                          /\ Names(listed, key) <=> got # NOT_FOUND]_vars

\* The entries of the durable file of a working root.
DiskOf(mem, repo_root) == LoadMemory(Memory(<<>>, mem.files), repo_root)

\* C35: after every set, append or delete the durable file of that working
\* root holds exactly the merged view: its previous entries overlaid by the
\* entries of the process, without the deleted key; a later session with an
\* empty cache on the same working root gets the same get and list results.
C35_FileHoldsMergedView ==
    [][Wrote({"memory_set", "memory_append", "memory_delete", "planner_node"}) =>
          \E before \in {CurrentMemory}, after \in {CurrentMemory'}, call \in {memory_call'} :
              \E later \in {Memory(<<>>, after.files)}, merged \in {Merged(DiskOf(before, call.root), after.store)} :
                  /\ DiskOf(after, call.root) =
                         IF call.op = "memory_delete" THEN Without(merged, call.key) ELSE merged
                  /\ memory_list(later, call.root) = memory_list(after, call.root)
                  /\ \A key \in MemoryKeys :
                         memory_get_internal(later, call.root, key) = memory_get_internal(after, call.root, key)]_vars

\* The working roots that have a directory, other than the given one.
OtherRoots(repo_root) == {RootStr, OtherRoot} \ {repo_root}

\* get and list under a working root and the entries of its durable file.
Answers(mem, repo_root) ==
    [key \in MemoryKeys |-> memory_get_internal(mem, repo_root, key)]
    @@ (<<"l", "i", "s", "t">> :> memory_list(mem, repo_root))
    @@ (<<"f", "i", "l", "e">> :> DiskOf(mem, repo_root))

\* The entries of the second dict are entries of the first, but for the key.
OnlyKeyWritten(disk_before, disk_after, key) ==
    \A other \in DOMAIN disk_after \ {key} :
        other \in DOMAIN disk_before /\ disk_after[other] = disk_before[other]

\* C36: memory is isolated per working root: a memory operation under the
\* working root A changes no answer of get or list under another working
\* root B and nothing in the durable file of B, so a key set only under A is
\* never returned under B and clearing A removes no entry of B; and an
\* operation under B writes to the file of B the entry of its own key only,
\* so a key set only under A is never written to the file of B.
C36_MemoryIsolatedPerRoot ==
    [][Wrote({"memory_set", "memory_append", "memory_delete", "clear_memory", "planner_node"}) =>
          \E before \in {CurrentMemory}, after \in {CurrentMemory'}, call \in {memory_call'} :
              /\ \A other \in OtherRoots(call.root) :
                     Answers(after, other) = Answers(before, other)
              /\ OnlyKeyWritten(DiskOf(before, call.root), DiskOf(after, call.root), call.key)]_vars

\* C37: the working root of a session is fixed: in every reachable state it
\* is the root the session was created with, whatever tool calls the engine
\* asked for.
C37_WorkingRootFixed == state_repo_root = RootStr

\* The executor ran in this step.
Recalled == memory_call' # memory_call /\ memory_call'.op = "executor_node"

\* C38: when the memory holds no working_directory key at the start of an
\* executor step, the executor keeps the working root of the session state;
\* the not-found answer of the memory is never taken as a directory.
C38_NotFoundKeepsRoot ==
    /\ [][Recalled /\ WORKING_DIRECTORY \notin DOMAIN LoadMemory(CurrentMemory, state_repo_root)
              => state_repo_root' = state_repo_root]_vars
    /\ [](state_repo_root # NOT_FOUND)

====
